---- MODULE Spec2Model ----
(***************************************************************************)
(* Recursive-descent C parser of src/src/parser.cpp as a state machine.    *)
(*                                                                         *)
(* Token positions are the integers 1..Len(tokens); the iterator `end` is  *)
(* Len(tokens) + 1.  A rule is a value (a tuple whose first element names  *)
(* it) run by `Run`; every rule yields a ParserResult.  The ParserContext  *)
(* is passed by reference in the source, so here every result carries the  *)
(* context as the rule left it.                                            *)
(***************************************************************************)
EXTENDS Integers, Sequences, FiniteSets, TLC

VARIABLES
  tokens,            \* the token stream: the sequence of token kinds
  past_end,          \* what reading the kind of *end yields (indeterminate)
  mark,              \* position where the second external declaration starts (0: none)
  pc,                \* position of SyntaxTree::parse
  it,                \* iterator of the compilation_unit loop / of parse
  compilation_unit,  \* ParserState accumulated by parser_compilation_unit
  parser,            \* the ParserContext
  ast,               \* the final state inside parse
  fail_i,            \* index of the emission loop over the failure list
  returned,          \* what parse returned
  tried,             \* positions where the loop ran one_of(function_definition, declaration)
  rule,              \* rule under direct application (SpecRule)
  result,            \* the ParserResult of the latest rule run by an action
  state,             \* a ParserState under the merge operations (SpecState)
  source,            \* the source buffer: the sequence of its characters
  line_begin,        \* SourceLineCache constructor: start of the current line
  line_end,          \* SourceLineCache constructor: the scan position
  offsets,           \* SourceLineCache::offsets: the line ranges found so far
  cache_pc,          \* position of the SourceLineCache constructor
  state_before,      \* SpecState: `state` before the latest merge operation
  arg_node,          \* SpecState: the node handed to add_node
  arg_what,          \* SpecState: the `what` handed to giveup_to_expected
  merge_op           \* SpecState: the merge operation applied last

\* The variables of the source manager.
cache == <<source, line_begin, line_end, offsets, cache_pc>>

\* The operands of a merge operation under direct application.
merge == <<state_before, arg_node, arg_what, merge_op>>

vars == <<tokens, past_end, mark, pc, it, compilation_unit, parser, ast, fail_i,
          returned, tried, rule, result, state, cache, merge>>

----------------------------------------------------------------------------
(* Tokens *)

begin_of_tokens == 1
end == Len(tokens) + 1

\* `it->type`.  Reading through `end` is undefined: it yields past_end.
TokenType(i) == IF i \in 1..Len(tokens) THEN tokens[i] ELSE past_end

\* to_string(TokenType), the spelling of a token kind (lexer).
TokenTypeToString(kind) ==
  CASE kind = "LeftParen" -> "("
    [] kind = "RightParen" -> ")"
    [] kind = "LeftBracket" -> "["
    [] kind = "RightBracket" -> "]"
    [] kind = "LeftBrace" -> "{"
    [] kind = "RightBrace" -> "}"
    [] kind = "Semicolon" -> ";"
    [] kind = "Comma" -> ","
    [] kind = "Colon" -> ":"
    [] kind = "QuestionMark" -> "?"
    [] kind = "Assign" -> "="
    [] kind = "Plus" -> "+"
    [] kind = "Minus" -> "-"
    [] kind = "Times" -> "*"
    [] kind = "While" -> "while"
    [] kind = "Struct" -> "struct"
    [] kind = "Union" -> "union"
    [] kind = "Eof" -> "eof"
    [] OTHER -> kind

\* string_ref(it->data): the source text of a token.
TokenText(i) == TokenTypeToString(TokenType(i))

----------------------------------------------------------------------------
(* SyntaxTree *)

NoToken == 0

nullptr == [type |-> "nullptr", token |-> NoToken, children |-> <<>>, annotation |-> FALSE]

SyntaxTree(type, token) ==
  [type |-> type, token |-> token, children |-> <<>>, annotation |-> FALSE]

\* std::make_unique<SyntaxTree>(): a node of type None.
SyntaxTreeNone == SyntaxTree("None", NoToken)

has_text(node) == node.token # NoToken
has_annotation(node) == node.annotation
child_count(node) == Len(node.children)
add_child(tree, node) == [tree EXCEPT !.children = Append(@, node)]
take_children(tree, node) == [tree EXCEPT !.children = @ \o node.children]
pop_child(tree) == tree.children[Len(tree.children)]

----------------------------------------------------------------------------
(* ParserState: ParserSuccess | ParserFailure *)

ParserSuccess(tree) == [success |-> TRUE, tree |-> tree, errors |-> <<>>]
ParserFailure(errors) == [success |-> FALSE, tree |-> nullptr, errors |-> errors]

is_success(s) == s.success
is_failure(s) == ~s.success

ParserError(status, where, error) == [status |-> status, where |-> where, error |-> error]

make_error(status, where, error) == ParserFailure(<<ParserError(status, where, error)>>)

add_error_append(st, error) ==
  [st EXCEPT !.errors = Append(@, error)]

add_error_prepend(st, error) ==
  IF is_success(st)
    THEN ParserFailure(<<error>>)
    ELSE [st EXCEPT !.errors = <<error>> \o @]

add_error(st, error) ==
  IF is_success(st)
    THEN ParserFailure(<<error>>)
    ELSE [st EXCEPT !.errors = Append(@, error)]

RECURSIVE add_errors(_, _)
add_errors(st, errors) ==
  IF errors = <<>> THEN st
  ELSE add_errors(add_error(st, Head(errors)), Tail(errors))

add_error_state(st, other) ==
  IF is_failure(other) THEN add_errors(st, other.errors) ELSE st

is_giveup_any(st) == ~st.success

is_giveup(st) ==
  IF st.success
    THEN FALSE
    ELSE \A i \in 1..Len(st.errors) : st.errors[i].status = "GiveUp"

RECURSIVE giveup_to_expected_what_loop(_, _, _)
giveup_to_expected_what_loop(new_state, errors, what) ==
  IF errors = <<>> THEN new_state
  ELSE
    LET e == Head(errors)
        s1 == IF e.status = "GiveUp"
                THEN LET a == add_error(new_state,
                                ParserError("Error", e.where, "expected " \o what))
                     IN IF e.error # ""
                          THEN add_error(a, ParserError("ErrorNote", e.where,
                                 e.error \o " instead of this '"
                                   \o TokenTypeToString(TokenType(e.where)) \o "'"))
                          ELSE a
                ELSE add_error(new_state, e)
    IN giveup_to_expected_what_loop(s1, Tail(errors), what)

giveup_to_expected_what(st, what) ==
  IF is_failure(st)
    THEN giveup_to_expected_what_loop(ParserSuccess(nullptr), st.errors, what)
    ELSE st

RECURSIVE giveup_to_expected_loop(_, _)
giveup_to_expected_loop(new_state, errors) ==
  IF errors = <<>> THEN new_state
  ELSE
    LET e == Head(errors)
        s1 == IF e.status = "GiveUp"
                THEN add_error(new_state, ParserError("Error", e.where, "expected " \o e.error))
                ELSE add_error(new_state, e)
    IN giveup_to_expected_loop(s1, Tail(errors))

\* giveup_to_expected(state) leaving the GiveUp entries as they are.
giveup_to_expected_unchanged(st) == st

giveup_to_expected(st) ==
  IF is_failure(st)
    THEN giveup_to_expected_loop(ParserSuccess(nullptr), st.errors)
    ELSE st

PreservedNodeTypes ==
  {"GenericAssocList", "ArgumentExpressionList", "Declaration", "DeclarationSpecifiers",
   "InitDeclaratorList", "StructDeclarationList", "SpecifierQualifierList",
   "StructDeclaratorList", "EnumeratorList", "FunctionSpecifier", "AlignmentSpecifier",
   "TypeQualifierList", "ParameterTypeList", "ParameterList", "IdentifierList",
   "InitializerList", "DesignatorList", "CompilationUnit", "TranslationUnit",
   "FunctionDeclarator"}

should_elide_never(node) == node.type = "None"

should_elide(node) ==
  IF node.type = "None" THEN TRUE
  ELSE IF has_annotation(node) THEN FALSE
  ELSE IF node.type \in PreservedNodeTypes THEN FALSE
  ELSE IF ~has_text(node) /\ child_count(node) = 1 THEN TRUE
  ELSE FALSE

\* Expects(node != nullptr) failing is recorded as a tree of this type.
ExpectsFailed == SyntaxTree("<Expects failed>", NoToken)

add_node_front(st, node) ==
  IF node = nullptr THEN ParserSuccess(ExpectsFailed)
  ELSE IF is_success(st)
    THEN IF st.tree = nullptr
           THEN ParserSuccess(node)
           ELSE IF node.type = "None" \/ should_elide(node)
             THEN ParserSuccess(take_children(st.tree, node))
             ELSE ParserSuccess([st.tree EXCEPT !.children = <<node>> \o @])
    ELSE st

add_node_append(st, node) ==
  IF node = nullptr THEN ParserSuccess(ExpectsFailed)
  ELSE IF is_success(st)
    THEN IF st.tree = nullptr
           THEN ParserSuccess(node)
           ELSE ParserSuccess(add_child(st.tree, node))
    ELSE st

\* add_node absorbing a Nothing node as it absorbs a None node.
add_node_nothing(st, node) ==
  IF node = nullptr THEN ParserSuccess(ExpectsFailed)
  ELSE IF is_success(st)
    THEN IF st.tree = nullptr
           THEN ParserSuccess(node)
           ELSE IF node.type = "Nothing" \/ should_elide(node)
             THEN ParserSuccess(take_children(st.tree, node))
             ELSE ParserSuccess(add_child(st.tree, node))
    ELSE st

add_node(st, node) ==
  IF node = nullptr THEN ParserSuccess(ExpectsFailed)
  ELSE IF is_success(st)
    THEN IF st.tree = nullptr
           THEN ParserSuccess(node)
           ELSE IF node.type = "None" \/ should_elide(node)
             THEN ParserSuccess(take_children(st.tree, node))
             ELSE ParserSuccess(add_child(st.tree, node))
    ELSE st

add_state(st, other) ==
  IF is_success(other)
    THEN add_node(st, other.tree)
    ELSE add_error_state(st, other)

----------------------------------------------------------------------------
(* ParserContext and ParserResult *)

ProgramContext(opts_pedantic) == [opts_pedantic |-> opts_pedantic, diagnostics |-> <<>>]

\* max_next_token and stalled are observations of the run, not fields of the
\* source: the largest next_token any ParserResult carried, and whether some
\* loop iteration left its iterator where it was (it would then repeat forever).
ParserContext(program) ==
  [program |-> program, is_inside_specifiers |-> FALSE,
   max_next_token |-> 0, stalled |-> FALSE]

Diagnostic(level, where, message) == [level |-> level, where |-> where, message |-> message]

program_call(p, level, where, message) ==
  [p EXCEPT !.program.diagnostics = Append(@, Diagnostic(level, where, message))]

parser_error_as_note(p, where, message) == program_call(p, "note", where, message)
parser_pedantic_as_error(p, where, message) == program_call(p, "error", where, message)

parser_note(p, where, message) == program_call(p, "note", where, message)
parser_error(p, where, message) == program_call(p, "error", where, message)
parser_pedantic(p, where, message) == program_call(p, "pedantic", where, message)

Stalled(p) == [p EXCEPT !.stalled = TRUE]

ParserResult(next_token, st, p) ==
  [next_token |-> next_token, state |-> st,
   parser |-> [p EXCEPT !.max_next_token = IF next_token > @ THEN next_token ELSE @]]

----------------------------------------------------------------------------
(* Combinators *)

\* A rule is a tuple <<name, arguments...>>; Run applies it at a position.
RECURSIVE Run(_, _, _)

\* A token predicate is <<"is", kinds>> or <<"not", kinds>>.
Pred(pred, t) ==
  IF pred[1] = "is" THEN TokenType(t) \in pred[2] ELSE TokenType(t) \notin pred[2]

RECURSIVE parser_one_of(_, _, _, _)
parser_one_of(p, begin, expected_what, rules) ==
  LET r == Run(Head(rules), p, begin)
  IN IF ~is_giveup(r.state)
       THEN ParserResult(r.next_token, r.state, r.parser)
       ELSE IF Len(rules) > 1
         THEN parser_one_of(r.parser, begin, expected_what, Tail(rules))
         ELSE ParserResult(end, make_error("GiveUp", begin, expected_what), r.parser)

RECURSIVE parser_many_of_loop(_, _, _, _, _)
parser_many_of_loop(p, i, st, r_rule, pred) ==
  IF i # end /\ Pred(pred, i)
    THEN LET r == Run(r_rule, p, i)
             st1 == add_state(st, r.state)
         IN IF r.next_token <= i
              THEN ParserResult(r.next_token, st1, Stalled(r.parser))
              ELSE parser_many_of_loop(r.parser, r.next_token, st1, r_rule, pred)
    ELSE ParserResult(i, st, p)

parser_many_of(p, begin, r_rule, pred) ==
  parser_many_of_loop(p, begin, ParserSuccess(SyntaxTreeNone), r_rule, pred)

is_empty_node(s) == is_success(s) /\ s.tree.type = "Nothing"

RECURSIVE parser_one_many_of_loop(_, _, _, _)
parser_one_many_of_loop(p, i, st, r_rule) ==
  IF i # end
    THEN LET r == Run(r_rule, p, i)
         IN IF ~is_giveup(r.state)
              THEN LET st1 == IF ~is_empty_node(r.state) THEN add_state(st, r.state) ELSE st
                       p1 == IF is_empty_node(r.state) /\ r.parser.program.opts_pedantic
                               THEN parser_pedantic(r.parser, i, "empty statement")
                               ELSE r.parser
                   IN IF r.next_token <= i
                        THEN ParserResult(r.next_token, st1, Stalled(p1))
                        ELSE parser_one_many_of_loop(p1, r.next_token, st1, r_rule)
              ELSE ParserResult(i, st, r.parser)
    ELSE ParserResult(i, st, p)

parser_one_many_of(p, begin, expected_what, r_rule) ==
  IF begin # end
    THEN LET r == Run(r_rule, p, begin)
         IN IF ~is_giveup(r.state)
              THEN LET st1 == IF ~is_empty_node(r.state)
                                THEN add_state(ParserSuccess(SyntaxTreeNone), r.state)
                                ELSE ParserSuccess(SyntaxTreeNone)
                       p1 == IF is_empty_node(r.state)
                               THEN parser_pedantic(r.parser, begin, "empty statement")
                               ELSE r.parser
                   IN parser_one_many_of_loop(p1, r.next_token, st1, r_rule)
              ELSE ParserResult(end, make_error("GiveUp", begin, expected_what), r.parser)
    ELSE ParserResult(end, make_error("GiveUp", begin, expected_what), p)

RECURSIVE parser_one_many_of_pred_loop(_, _, _, _, _)
parser_one_many_of_pred_loop(p, i, st, r_rule, pred) ==
  LET r == Run(r_rule, p, i)
      st1 == add_state(st, r.state)
  IN IF r.next_token # end /\ Pred(pred, r.next_token)
       THEN IF r.next_token <= i
              THEN ParserResult(r.next_token, st1, Stalled(r.parser))
              ELSE parser_one_many_of_pred_loop(r.parser, r.next_token, st1, r_rule, pred)
       ELSE ParserResult(r.next_token, st1, r.parser)

\* The predicated parser_one_many_of giving up with `expected_what` when the
\* first application of its rule gives up.
parser_one_many_of_pred_expected(p, begin, expected_what, r_rule, pred) ==
  IF begin # end /\ ~is_giveup(Run(r_rule, p, begin).state)
    THEN parser_one_many_of_pred_loop(p, begin, ParserSuccess(SyntaxTreeNone), r_rule, pred)
    ELSE ParserResult(end, make_error("GiveUp", begin, expected_what), p)

parser_one_many_of_pred(p, begin, expected_what, r_rule, pred) ==
  IF begin # end
    THEN parser_one_many_of_pred_loop(p, begin, ParserSuccess(SyntaxTreeNone), r_rule, pred)
    ELSE ParserResult(end, make_error("GiveUp", begin, expected_what), p)

\* to_string(NodeType) for the node types given to parser_operator.
NodeTypeToString(type) ==
  CASE type = "UnaryExpression" -> "unary expression"
    [] type = "MultiplicativeExpression" -> "multiplicative expression"
    [] type = "AdditiveExpression" -> "additive expression"
    [] type = "ShiftExpression" -> "shift expression"
    [] type = "RelationalExpression" -> "relatioal expression"
    [] type = "EqualityExpression" -> "equality expression"
    [] type = "AndExpression" -> "and expression"
    [] type = "ExclusiveOrExpression" -> "exclusive or expression"
    [] type = "InclusiveOrExpression" -> "inclusive or expression"
    [] type = "LogicalAndExpression" -> "logical and expression"
    [] type = "LogicalOrExpression" -> "logical or expression"
    [] type = "AssignmentExpression" -> "assignment expression"
    [] type = "Expression" -> "expression"
    [] OTHER -> type

parser_operator(p, begin, op_type, op_match) ==
  IF begin # end /\ TokenType(begin) \in op_match
    THEN ParserResult(begin + 1, ParserSuccess(SyntaxTree(op_type, begin)), p)
    ELSE ParserResult(end, make_error("GiveUp", begin, NodeTypeToString(op_type)), p)

\* The operator loop with a recovery hop of two tokens instead of one.
RECURSIVE parser_left_binary_operator_loop_hop2(_, _, _, _, _)
parser_left_binary_operator_loop_hop2(p, lhs_it, lhs_state, op_rule, rhs_rule) ==
  LET op == Run(op_rule, p, lhs_it)
  IN IF ~is_giveup(op.state)
       THEN LET op_token == TokenText(lhs_it)
                rhs == Run(rhs_rule, op.parser, op.next_token)
                lhs_it1 == IF is_success(rhs.state) THEN rhs.next_token
                           ELSE op.next_token + 2
                what == "expression for operator '" \o op_token \o "'"
                op_state1 == add_state(op.state, giveup_to_expected_what(lhs_state, what))
                op_state2 == add_state(op_state1, giveup_to_expected_what(rhs.state, what))
            IN IF lhs_it1 <= lhs_it \/ lhs_it1 > end
                 THEN ParserResult(lhs_it1, op_state2, Stalled(rhs.parser))
                 ELSE parser_left_binary_operator_loop_hop2(rhs.parser, lhs_it1, op_state2,
                                                            op_rule, rhs_rule)
       ELSE ParserResult(lhs_it, lhs_state, op.parser)

\* The operator loop leaving after its first operator.
parser_left_binary_operator_loop_once(p, lhs_it, lhs_state, op_rule, rhs_rule) ==
  LET op == Run(op_rule, p, lhs_it)
  IN IF ~is_giveup(op.state)
       THEN LET op_token == TokenText(lhs_it)
                rhs == Run(rhs_rule, op.parser, op.next_token)
                lhs_it1 == IF is_success(rhs.state) THEN rhs.next_token
                           ELSE IF op.next_token # end THEN op.next_token + 1
                           ELSE op.next_token
                what == "expression for operator '" \o op_token \o "'"
                op_state1 == add_state(op.state, giveup_to_expected_what(lhs_state, what))
                op_state2 == add_state(op_state1, giveup_to_expected_what(rhs.state, what))
            IN ParserResult(lhs_it1, op_state2, rhs.parser)
       ELSE ParserResult(lhs_it, lhs_state, op.parser)

\* The operator loop without the recovery hop after a failed right operand.
RECURSIVE parser_left_binary_operator_loop_nohop(_, _, _, _, _)
parser_left_binary_operator_loop_nohop(p, lhs_it, lhs_state, op_rule, rhs_rule) ==
  LET op == Run(op_rule, p, lhs_it)
  IN IF ~is_giveup(op.state)
       THEN LET op_token == TokenText(lhs_it)
                rhs == Run(rhs_rule, op.parser, op.next_token)
                lhs_it1 == IF is_success(rhs.state) THEN rhs.next_token
                           ELSE op.next_token
                what == "expression for operator '" \o op_token \o "'"
                op_state1 == add_state(op.state, giveup_to_expected_what(lhs_state, what))
                op_state2 == add_state(op_state1, giveup_to_expected_what(rhs.state, what))
            IN IF lhs_it1 <= lhs_it
                 THEN ParserResult(lhs_it1, op_state2, Stalled(rhs.parser))
                 ELSE parser_left_binary_operator_loop_nohop(rhs.parser, lhs_it1, op_state2,
                                                             op_rule, rhs_rule)
       ELSE ParserResult(lhs_it, lhs_state, op.parser)


RECURSIVE parser_left_binary_operator_loop(_, _, _, _, _)
parser_left_binary_operator_loop(p, lhs_it, lhs_state, op_rule, rhs_rule) ==
  LET op == Run(op_rule, p, lhs_it)
  IN IF ~is_giveup(op.state)
       THEN LET op_token == TokenText(lhs_it)
                rhs == Run(rhs_rule, op.parser, op.next_token)
                lhs_it1 == IF is_success(rhs.state) THEN rhs.next_token
                           ELSE IF op.next_token # end THEN op.next_token + 1
                           ELSE op.next_token
                what == "expression for operator '" \o op_token \o "'"
                op_state1 == add_state(op.state, giveup_to_expected_what(lhs_state, what))
                op_state2 == add_state(op_state1, giveup_to_expected_what(rhs.state, what))
            IN IF lhs_it1 <= lhs_it
                 THEN ParserResult(lhs_it1, op_state2, Stalled(rhs.parser))
                 ELSE parser_left_binary_operator_loop(rhs.parser, lhs_it1, op_state2,
                                                       op_rule, rhs_rule)
       ELSE ParserResult(lhs_it, lhs_state, op.parser)

\* parser_left_binary_operator from the point where its lhs parser has returned.
parser_left_binary_operator_after(lhs, op_rule, rhs_rule) ==
  IF is_giveup(lhs.state)
    THEN ParserResult(end, lhs.state, lhs.parser)
    ELSE parser_left_binary_operator_loop(lhs.parser, lhs.next_token, lhs.state,
                                          op_rule, rhs_rule)

parser_left_binary_operator(p, begin, lhs_rule, op_rule, rhs_rule) ==
  IF begin = end
    THEN ParserResult(end, make_error("GiveUp", begin, "binary operator"), p)
    ELSE parser_left_binary_operator_after(Run(lhs_rule, p, begin), op_rule, rhs_rule)

parser_right_binary_operator(p, begin, lhs_rule, op_rule, rhs_rule) ==
  IF begin # end
    THEN LET lhs == Run(lhs_rule, p, begin)
         IN IF ~is_giveup(lhs.state)
              THEN LET op == Run(op_rule, lhs.parser, lhs.next_token)
                   IN IF ~is_giveup(op.state)
                        THEN LET op_token == TokenText(lhs.next_token)
                                 rhs == Run(rhs_rule, op.parser, op.next_token)
                                 op_state1 == add_state(op.state, lhs.state)
                                 op_state2 ==
                                   add_state(op_state1,
                                     giveup_to_expected_what(rhs.state,
                                       "expression for operator '" \o op_token \o "'"))
                             IN ParserResult(rhs.next_token, op_state2, rhs.parser)
                        ELSE ParserResult(end, make_error("GiveUp", begin, "binary operator"),
                                          op.parser)
              ELSE ParserResult(end, make_error("GiveUp", begin, "binary operator"), lhs.parser)
    ELSE ParserResult(end, make_error("GiveUp", begin, "binary operator"), p)

parser_opt(p, begin, r_rule) ==
  LET r == Run(r_rule, p, begin)
  IN IF ~is_giveup(r.state)
       THEN ParserResult(r.next_token, r.state, r.parser)
       ELSE ParserResult(begin, ParserSuccess(SyntaxTree("Nothing", NoToken)), r.parser)

\* expect_token and expect_end_token change `state` and return a bool:
\* the result here is [ok, state].
expect_token(st, i, token) ==
  IF i # end /\ TokenType(i) # token
    THEN [ok |-> FALSE,
          state |-> add_error_state(st,
                      make_error("Error", i,
                        "expected '" \o TokenTypeToString(token) \o "' before '"
                          \o TokenTypeToString(TokenType(i)) \o "'"))]
    ELSE [ok |-> i # end, state |-> st]

expect_end_token_silent(st, begin, i, token) ==
  [ok |-> i # end /\ TokenType(i) = token, state |-> st]

expect_end_token(st, begin, i, token) ==
  IF i # end
    THEN IF TokenType(i) # token
           THEN [ok |-> FALSE,
                 state |->
                   add_error_state(
                     add_error_state(st,
                       make_error("Error", i, "expected '" \o TokenTypeToString(token) \o "'")),
                     make_error("ErrorNote", begin,
                       "to match this '" \o TokenTypeToString(TokenType(begin)) \o "'"))]
           ELSE [ok |-> TRUE, state |-> st]
    ELSE [ok |-> FALSE,
          state |-> add_error_state(st,
                      make_error("Error", begin,
                        "missing '" \o TokenTypeToString(token) \o "' for this"))]

parser_parens(p, begin, r_rule, left_brace, right_brace) ==
  IF begin # end /\ TokenType(begin) = left_brace
    THEN LET r == Run(r_rule, p, begin + 1)
         IN IF ~is_giveup(r.state) /\ r.next_token # end
              THEN LET e == expect_end_token(r.state, begin, r.next_token, right_brace)
                   IN ParserResult(IF e.ok THEN r.next_token + 1 ELSE r.next_token,
                                   e.state, r.parser)
              ELSE ParserResult(r.next_token, r.state, r.parser)
    ELSE ParserResult(end, make_error("GiveUp", begin,
                        "'" \o TokenTypeToString(left_brace) \o "'"), p)

ClosingTokens == {"RightBrace", "RightBracket", "RightParen"}

RECURSIVE parser_list_of_loop(_, _, _, _, _)
parser_list_of_loop(p, i, st, r_rule, allow_trailing_comma) ==
  IF i # end
    THEN LET r == Run(r_rule, p, i)
             r_it == r.next_token
             st1 == add_state(st, giveup_to_expected(r.state))
             i1 == IF r_it # end /\ TokenType(r_it) = "Comma" THEN r_it + 1 ELSE r_it
         IN IF allow_trailing_comma /\ i1 # end /\ TokenType(i1) \in ClosingTokens
              THEN ParserResult(i1, st1, r.parser)
              ELSE IF r_it = end \/ TokenType(r_it) # "Comma"
                THEN ParserResult(i1, st1, r.parser)
                ELSE IF i1 <= i
                  THEN ParserResult(i1, st1, Stalled(r.parser))
                  ELSE parser_list_of_loop(r.parser, i1, st1, r_rule, allow_trailing_comma)
    ELSE ParserResult(i, st, p)

parser_list_of(p, begin, r_rule, allow_trailing_comma) ==
  IF begin # end
    THEN parser_list_of_loop(p, begin, ParserSuccess(SyntaxTreeNone), r_rule,
                             allow_trailing_comma)
    ELSE ParserResult(end, make_error("GiveUp", begin, "parser_list_of"), p)

----------------------------------------------------------------------------
(* Grammar rules *)

RECURSIVE parser_expression(_, _)
RECURSIVE parser_primary_expression(_, _)
RECURSIVE parser_cast_expression(_, _)
RECURSIVE parser_assignment_expression(_, _)
RECURSIVE parser_declaration_specifiers(_, _)
RECURSIVE parser_declarator(_, _)
RECURSIVE parser_abstract_declarator(_, _)
RECURSIVE parser_type_name(_, _)
RECURSIVE parser_struct_or_union_specifier(_, _)
RECURSIVE parser_enum_specifier(_, _)
RECURSIVE parser_pointer(_, _)
RECURSIVE parser_initializer(_, _)
RECURSIVE parser_initializer_list(_, _)
RECURSIVE parser_statement(_, _)
RECURSIVE parser_compound_statement(_, _)
RECURSIVE parser_declaration(_, _)

parser_identifier(p, begin) ==
  IF begin # end /\ TokenType(begin) = "Identifier"
    THEN ParserResult(begin + 1, ParserSuccess(SyntaxTree("Identifier", begin)), p)
    ELSE ParserResult(end, make_error("GiveUp", begin, "identifier"), p)

parser_identifier_list(p, begin) ==
  IF begin # end /\ TokenType(begin) = "Identifier"
    THEN LET idents == parser_list_of(p, begin, <<"parser_identifier">>, FALSE)
             ident_list == IF is_success(idents.state)
                             THEN add_node(ParserSuccess(nullptr),
                                           SyntaxTree("IdentifierList", NoToken))
                             ELSE ParserSuccess(nullptr)
         IN ParserResult(idents.next_token,
              add_state(ident_list,
                giveup_to_expected_what(idents.state, "identifiers separated by comma")),
              idents.parser)
    ELSE ParserResult(end, make_error("GiveUp", begin, "identifier list"), p)

parser_string_literal(p, begin) ==
  LET has_prefix == begin # end /\ TokenType(begin) = "EncodingPrefix"
      i == IF has_prefix THEN begin + 1 ELSE begin
  IN IF i # end /\ TokenType(i) = "StringConstant"
       THEN LET tree == SyntaxTree("StringLiteral", i)
                tree1 == IF has_prefix
                           THEN add_child(tree, SyntaxTree("EncodingPrefix", begin))
                           ELSE tree
            IN ParserResult(i + 1, ParserSuccess(tree1), p)
       ELSE ParserResult(end, make_error("GiveUp", i, "string literal"), p)

parser_string_literal_list(p, begin) ==
  LET strings == parser_one_many_of_pred(p, begin, "string literal",
                   <<"parser_string_literal">>, <<"is", {"StringConstant"}>>)
  IN IF is_success(strings.state) /\ child_count(strings.state.tree) = 1
       THEN ParserResult(strings.next_token, ParserSuccess(pop_child(strings.state.tree)),
                         strings.parser)
       ELSE IF ~is_giveup(strings.state)
         THEN ParserResult(strings.next_token,
                add_state(ParserSuccess(SyntaxTree("StringLiteralList", NoToken)),
                          strings.state),
                strings.parser)
         ELSE ParserResult(end, make_error("GiveUp", begin, "string literal list"),
                           strings.parser)

const_type(kind) ==
  CASE kind \in {"IntegerConstant", "OctIntegerConstant", "HexIntegerConstant"}
         -> "IntegerConstant"
    [] kind = "FloatConstant" -> "FloatingConstant"
    [] kind = "CharConstant" -> "CharacterConstant"
    [] kind = "Identifier" -> "EnumerationConstant"
    [] OTHER -> "None"

parser_constant(p, begin) ==
  IF begin = end
    THEN ParserResult(end, make_error("GiveUp", begin, "constant"), p)
    ELSE IF const_type(TokenType(begin)) # "None"
      THEN ParserResult(begin + 1,
             ParserSuccess(SyntaxTree(const_type(TokenType(begin)), begin)), p)
      ELSE ParserResult(end, make_error("GiveUp", begin, "constant"), p)

parser_parameter_declaration(p, begin) ==
  IF begin # end
    THEN LET ds == Run(<<"parser_declaration_specifiers">>, p, begin)
         IN IF ~is_giveup(ds.state)
              THEN LET param_decl0 ==
                         IF is_success(ds.state)
                           THEN add_node(ParserSuccess(nullptr),
                                         SyntaxTree("ParameterDeclaration", NoToken))
                           ELSE ParserSuccess(nullptr)
                       param_decl == add_state(param_decl0, ds.state)
                       d == Run(<<"parser_declarator">>, ds.parser, ds.next_token)
                   IN IF ~is_giveup(d.state)
                        THEN ParserResult(d.next_token, add_state(param_decl, d.state),
                                          d.parser)
                        ELSE LET a == Run(<<"parser_abstract_declarator">>, d.parser, ds.next_token)
                             IN IF ~is_giveup(a.state)
                                  THEN ParserResult(a.next_token,
                                         add_state(param_decl, a.state), a.parser)
                                  ELSE ParserResult(ds.next_token, param_decl, a.parser)
              ELSE ParserResult(end, make_error("GiveUp", begin, "parameter declaration"),
                                ds.parser)
    ELSE ParserResult(end, make_error("GiveUp", begin, "parameter declaration"), p)

RECURSIVE parser_parameter_type_list_loop(_, _, _)
parser_parameter_type_list_loop(p, i, parameters) ==
  IF i # end
    THEN LET param == Run(<<"parser_parameter_declaration">>, p, i)
             parameters1 == add_state(parameters, giveup_to_expected(param.state))
             next_it == param.next_token
         IN IF next_it # end /\ TokenType(next_it) = "Comma"
              THEN IF next_it + 1 # end /\ TokenType(next_it + 1) = "Ellipsis"
                     THEN ParserResult(next_it + 2,
                            add_node(parameters1, SyntaxTree("VariadicParameter", next_it + 1)),
                            param.parser)
                     ELSE IF next_it + 1 <= i
                       THEN ParserResult(next_it + 1, parameters1, Stalled(param.parser))
                       ELSE parser_parameter_type_list_loop(param.parser, next_it + 1,
                                                            parameters1)
              ELSE ParserResult(next_it, parameters1, param.parser)
    ELSE ParserResult(i, parameters, p)

parser_parameter_type_list_absent(p, begin) ==
  ParserResult(end, make_error("GiveUp", begin, "parameter type list"), p)

parser_parameter_type_list(p, begin) ==
  IF begin # end
    THEN LET param == Run(<<"parser_parameter_declaration">>, p, begin)
             parameters == add_state(ParserSuccess(SyntaxTree("ParameterList", NoToken)),
                                     param.state)
             next_it == param.next_token
         IN IF next_it # end /\ TokenType(next_it) = "Comma"
              THEN IF next_it + 1 # end /\ TokenType(next_it + 1) = "Ellipsis"
                     THEN ParserResult(next_it + 2,
                            add_node(parameters, SyntaxTree("VariadicParameter", next_it + 1)),
                            param.parser)
                     ELSE parser_parameter_type_list_loop(param.parser, next_it + 1, parameters)
              ELSE ParserResult(next_it, parameters, param.parser)
    ELSE ParserResult(end, make_error("GiveUp", begin, "parameter type list"), p)

\* parser_typedef_name with its disabled branch enabled.
parser_typedef_name_enabled(p, begin) ==
  IF begin # end /\ TokenType(begin) = "Identifier"
    THEN ParserResult(begin + 1, ParserSuccess(SyntaxTree("TypedefName", begin)), p)
    ELSE ParserResult(end, make_error("GiveUp", begin, "typedef name"), p)

parser_typedef_name(p, begin) ==
  IF FALSE /\ begin # end /\ TokenType(begin) = "Identifier"
    THEN ParserResult(begin + 1, ParserSuccess(SyntaxTree("TypedefName", begin)), p)
    ELSE ParserResult(end, make_error("GiveUp", begin, "typedef name"), p)

parser_atomic_type_specifier(p, begin) ==
  IF begin # end /\ begin + 1 # end
       /\ TokenType(begin) = "Atomic" /\ TokenType(begin + 1) = "LeftParen"
    THEN LET type_name == parser_parens(p, begin + 1, <<"parser_type_name">>,
                                        "LeftParen", "RightParen")
             atomic_type_spec == ParserSuccess(SyntaxTree("AtomicTypeSpecifier", begin))
         IN ParserResult(type_name.next_token,
              add_state(atomic_type_spec,
                giveup_to_expected_what(type_name.state,
                                        "type name for atomic type specifier")),
              type_name.parser)
    ELSE ParserResult(end, make_error("GiveUp", begin, "atomic type specifier"), p)

TypeSpecifierTokens ==
  {"VoidType", "CharType", "ShortType", "IntType", "LongType", "FloatType", "DoubleType",
   "Signed", "Unsigned", "Bool", "Complex", "VectorM128", "VectorM128d", "VectorM128i"}

parser_type_specifier_unrestored(p, begin) ==
  IF begin # end
    THEN IF TokenType(begin) \in TypeSpecifierTokens
           THEN ParserResult(begin + 1,
                  add_node(ParserSuccess(nullptr), SyntaxTree("TypeSpecifier", begin)), p)
           ELSE LET sub == parser_one_of([p EXCEPT !.is_inside_specifiers = TRUE], begin,
                             "type specifier",
                             << <<"parser_atomic_type_specifier">>,
                                <<"parser_struct_or_union_specifier">>,
                                <<"parser_enum_specifier">>,
                                <<"parser_typedef_name">> >>)
                    type_spec == IF is_success(sub.state)
                                   THEN add_node(ParserSuccess(nullptr),
                                                 SyntaxTree("TypeSpecifier", NoToken))
                                   ELSE ParserSuccess(nullptr)
                IN ParserResult(sub.next_token, add_state(type_spec, sub.state), sub.parser)
    ELSE ParserResult(end, make_error("GiveUp", begin, "type specifier"), p)

parser_type_specifier(p, begin) ==
  IF begin # end
    THEN IF TokenType(begin) \in TypeSpecifierTokens
           THEN ParserResult(begin + 1,
                  add_node(ParserSuccess(nullptr), SyntaxTree("TypeSpecifier", begin)), p)
           ELSE LET old == p.is_inside_specifiers
                    sub == parser_one_of([p EXCEPT !.is_inside_specifiers = TRUE], begin,
                             "type specifier",
                             << <<"parser_atomic_type_specifier">>,
                                <<"parser_struct_or_union_specifier">>,
                                <<"parser_enum_specifier">>,
                                <<"parser_typedef_name">> >>)
                    type_spec == IF is_success(sub.state)
                                   THEN add_node(ParserSuccess(nullptr),
                                                 SyntaxTree("TypeSpecifier", NoToken))
                                   ELSE ParserSuccess(nullptr)
                IN ParserResult(sub.next_token, add_state(type_spec, sub.state),
                                [sub.parser EXCEPT !.is_inside_specifiers = old])
    ELSE ParserResult(end, make_error("GiveUp", begin, "type specifier"), p)

TypeQualifierTokens == {"Const", "Restrict", "Volatile", "Atomic"}

parser_type_qualifier(p, begin) ==
  IF begin # end /\ TokenType(begin) \in TypeQualifierTokens
    THEN ParserResult(begin + 1, ParserSuccess(SyntaxTree("TypeQualifier", begin)), p)
    ELSE ParserResult(end, make_error("GiveUp", begin, "type qualifier"), p)

parser_type_qualifier_list(p, begin) ==
  LET quals == parser_one_many_of_pred(p, begin, "type qualifier list",
                 <<"parser_type_qualifier">>, <<"is", TypeQualifierTokens>>)
      qualifiers == IF is_success(quals.state)
                      THEN ParserSuccess(SyntaxTree("TypeQualifierList", NoToken))
                      ELSE ParserSuccess(nullptr)
  IN ParserResult(quals.next_token, add_state(qualifiers, quals.state), quals.parser)

parser_pointer(p, begin) ==
  IF begin # end /\ TokenType(begin) = "Times"
    THEN LET pointer == ParserSuccess(SyntaxTree("PointerDeclarator", begin))
             quals == Run(<<"parser_type_qualifier_list">>, p, begin + 1)
             has_quals == ~is_giveup(quals.state)
             pointer1 == IF has_quals
                           THEN add_state(pointer,
                                  giveup_to_expected_what(quals.state,
                                    "type qualifier list for pointer type"))
                           ELSE pointer
             i == IF has_quals THEN quals.next_token ELSE begin + 1
         IN IF i # end /\ TokenType(i) = "Times"
              THEN LET sub == Run(<<"parser_pointer">>, quals.parser, i)
                   IN ParserResult(sub.next_token,
                        add_state(pointer1,
                                  giveup_to_expected_what(sub.state, "nested pointer")),
                        sub.parser)
              ELSE ParserResult(i, pointer1, quals.parser)
    ELSE ParserResult(end, make_error("GiveUp", begin, "pointer"), p)

\* The lambda function_declarator of parser_direct_abstract_declarator.
abstract_function_declarator(p, begin) ==
  IF begin # end
    THEN LET func_token == begin - 1
         IN IF TokenType(begin) = "RightParen"
              THEN ParserResult(begin,
                     ParserSuccess(SyntaxTree("FunctionDeclarator", func_token)), p)
              ELSE LET ad == Run(<<"parser_abstract_declarator">>, p, begin)
                   IN IF ~is_giveup(ad.state)
                        THEN ParserResult(ad.next_token, ad.state, ad.parser)
                        ELSE LET params == Run(<<"parser_parameter_type_list">>, ad.parser, begin)
                                 func_decl ==
                                   IF is_success(params.state)
                                     THEN add_node(ParserSuccess(nullptr),
                                            SyntaxTree("FunctionDeclarator", func_token))
                                     ELSE ParserSuccess(nullptr)
                             IN ParserResult(params.next_token,
                                  add_state(func_decl, params.state), params.parser)
    ELSE ParserResult(end, make_error("GiveUp", begin, "function declarator"), p)

\* The lambda array_declarator of parser_direct_abstract_declarator.
abstract_array_declarator(p, begin) ==
  IF begin # end
    THEN LET array_token == begin - 1
         IN IF TokenType(begin) = "RightBracket"
              THEN ParserResult(begin,
                     ParserSuccess(SyntaxTree("ArrayVLADeclarator", array_token)), p)
            ELSE IF TokenType(begin) = "Times" /\ begin + 1 # end
                      /\ TokenType(begin + 1) = "RightBracket"
              THEN ParserResult(begin + 1,
                     ParserSuccess(SyntaxTree("ArrayVLADeclarator", array_token)), p)
            ELSE IF TokenType(begin) = "Static"
              THEN LET decl == ParserSuccess(SyntaxTree("ArrayStaticDeclarator", array_token))
                       quals == Run(<<"parser_type_qualifier_list">>, p, begin + 1)
                       has_quals == ~is_giveup(quals.state)
                       decl1 == IF has_quals
                                  THEN add_state(decl,
                                         giveup_to_expected_what(quals.state,
                                           "qualifiers for array declarator"))
                                  ELSE decl
                       i == IF has_quals THEN quals.next_token ELSE begin + 1
                       assign == Run(<<"parser_assignment_expression">>, quals.parser, i)
                   IN ParserResult(assign.next_token,
                        add_state(decl1,
                          giveup_to_expected_what(assign.state, "expression for array length")),
                        assign.parser)
            ELSE LET quals == Run(<<"parser_type_qualifier_list">>, p, begin)
                     qual_it == quals.next_token
                 IN IF ~is_giveup(quals.state) /\ qual_it # end /\ TokenType(qual_it) = "Static"
                      THEN LET assign == Run(<<"parser_assignment_expression">>, quals.parser, qual_it + 1)
                               decl == IF is_success(assign.state)
                                         THEN ParserSuccess(
                                                SyntaxTree("ArrayStaticDeclarator", array_token))
                                         ELSE ParserSuccess(nullptr)
                               decl1 == add_state(decl,
                                          giveup_to_expected_what(quals.state,
                                            "qualifiers for array declarator"))
                           IN ParserResult(assign.next_token,
                                add_state(decl1,
                                  giveup_to_expected_what(assign.state,
                                    "expression for array length")),
                                assign.parser)
                      ELSE LET assign == Run(<<"parser_assignment_expression">>, quals.parser,
                                           IF qual_it # end THEN qual_it ELSE begin)
                               decl == ParserSuccess(SyntaxTree("ArrayDeclarator", array_token))
                               decl1 == IF ~is_giveup(quals.state)
                                          THEN add_state(decl, quals.state) ELSE decl
                               i1 == IF ~is_giveup(quals.state) THEN qual_it ELSE begin
                               decl2 == IF ~is_giveup(assign.state)
                                          THEN add_state(decl1, assign.state) ELSE decl1
                               i2 == IF ~is_giveup(assign.state) THEN assign.next_token ELSE i1
                           IN ParserResult(i2, decl2, assign.parser)
    ELSE ParserResult(end, make_error("GiveUp", begin, "direct abstract declarator"), p)

RECURSIVE parser_direct_abstract_declarator_loop(_, _, _)
parser_direct_abstract_declarator_loop(p, i, array_decl) ==
  IF i # end /\ TokenType(i) = "LeftParen"
    THEN LET params == parser_parens(p, i, <<"parser_opt", <<"parser_parameter_type_list">> >>,
                                     "LeftParen", "RightParen")
             func_decl == ParserSuccess(SyntaxTree("FunctionDeclarator", NoToken))
             func_decl1 == add_state(func_decl,
                             giveup_to_expected_what(array_decl, "array declarator"))
             func_decl2 == add_state(func_decl1,
                             giveup_to_expected_what(params.state, "parameter type list"))
         IN IF params.next_token <= i
              THEN ParserResult(params.next_token, func_decl2, Stalled(params.parser))
              ELSE parser_direct_abstract_declarator_loop(params.parser, params.next_token,
                                                          func_decl2)
  ELSE IF i # end /\ TokenType(i) = "LeftBracket"
    THEN LET declarator == parser_parens(p, i, <<"abstract_array_declarator">>,
                                         "LeftBracket", "RightBracket")
             direct_decl == ParserSuccess(SyntaxTree("DirectAbstractDeclarator", NoToken))
             direct_decl1 == add_state(direct_decl,
                               giveup_to_expected_what(array_decl, "array declarator"))
             direct_decl2 == add_state(direct_decl1,
                               giveup_to_expected_what(declarator.state, "array declarator"))
         IN IF declarator.next_token <= i
              THEN ParserResult(declarator.next_token, direct_decl2, Stalled(declarator.parser))
              ELSE parser_direct_abstract_declarator_loop(declarator.parser,
                                                          declarator.next_token, direct_decl2)
  ELSE ParserResult(i, array_decl, p)

parser_direct_abstract_declarator(p, begin) ==
  IF begin # end
    THEN LET r == parser_one_of(p, begin, "function or array declarator",
                    << <<"parser_parens", <<"abstract_function_declarator">>,
                         "LeftParen", "RightParen">>,
                       <<"parser_parens", <<"abstract_array_declarator">>,
                         "LeftBracket", "RightBracket">> >>)
         IN IF is_giveup(r.state)
              THEN ParserResult(r.next_token, r.state, r.parser)
              ELSE parser_direct_abstract_declarator_loop(r.parser, r.next_token, r.state)
    ELSE ParserResult(end, make_error("GiveUp", begin, "direct abstract declarator"), p)

parser_abstract_declarator(p, begin) ==
  IF begin # end /\ TokenType(begin) = "Times"
    THEN LET ptr == Run(<<"parser_pointer">>, p, begin)
             ptr_it == ptr.next_token
         IN IF ptr_it # end /\ TokenType(ptr_it) = "LeftBracket"
              THEN LET decl == Run(<<"parser_direct_abstract_declarator">>, ptr.parser, ptr_it)
                       abstract_decl == IF ~is_giveup(decl.state)
                                          THEN add_node(ParserSuccess(nullptr),
                                                 SyntaxTree("AbstractDeclarator", NoToken))
                                          ELSE ParserSuccess(nullptr)
                       abstract_decl1 == add_state(abstract_decl, giveup_to_expected(ptr.state))
                   IN ParserResult(decl.next_token,
                        add_state(abstract_decl1, giveup_to_expected(decl.state)), decl.parser)
              ELSE ParserResult(ptr_it, ptr.state, ptr.parser)
  ELSE IF begin # end /\ TokenType(begin) = "LeftBracket"
    THEN Run(<<"parser_direct_abstract_declarator">>, p, begin)
  ELSE ParserResult(end, make_error("GiveUp", begin, "abstract declarator"), p)

SpecQualRules == << <<"parser_type_specifier">>, <<"parser_type_qualifier">> >>

RECURSIVE parser_specifier_qualifier_list_loop(_, _, _)
parser_specifier_qualifier_list_loop(p, i, qualifiers) ==
  LET s == parser_one_of(p, i, "type specifier or qualifier", SpecQualRules)
  IN IF ~is_giveup(s.state)
       THEN IF s.next_token <= i
              THEN ParserResult(s.next_token, add_state(qualifiers, s.state), Stalled(s.parser))
              ELSE parser_specifier_qualifier_list_loop(s.parser, s.next_token,
                                                        add_state(qualifiers, s.state))
       ELSE ParserResult(i, qualifiers, s.parser)

parser_specifier_qualifier_list(p, begin) ==
  IF begin # end
    THEN LET s == parser_one_of(p, begin, "type specifier or qualifier", SpecQualRules)
         IN IF ~is_giveup(s.state)
              THEN parser_specifier_qualifier_list_loop(s.parser, s.next_token,
                     add_state(ParserSuccess(SyntaxTree("SpecifierQualifierList", NoToken)),
                               s.state))
              ELSE ParserResult(end, s.state, s.parser)
    ELSE ParserResult(end, make_error("GiveUp", begin, "specifier qualifier list"), p)

parser_type_name(p, begin) ==
  IF begin # end
    THEN LET sq == Run(<<"parser_specifier_qualifier_list">>, p, begin)
         IN IF is_giveup(sq.state)
              THEN ParserResult(sq.next_token, sq.state, sq.parser)
              ELSE LET type_name == add_state(ParserSuccess(SyntaxTree("TypeName", NoToken)),
                                              sq.state)
                       ad == Run(<<"parser_abstract_declarator">>, sq.parser, sq.next_token)
                   IN IF ~is_giveup(ad.state)
                        THEN ParserResult(ad.next_token, add_state(type_name, ad.state),
                                          ad.parser)
                        ELSE ParserResult(sq.next_token, type_name, ad.parser)
    ELSE ParserResult(end, make_error("GiveUp", begin, "type name"), p)

RECURSIVE parser_conditional_expression(_, _)

parser_constant_expression(p, begin) == Run(<<"parser_conditional_expression">>, p, begin)

static_assert_args_production(p, begin) ==
  LET const_expr == Run(<<"parser_constant_expression">>, p, begin)
      args == add_state(ParserSuccess(SyntaxTreeNone), giveup_to_expected(const_expr.state))
      e == expect_token(args, const_expr.next_token, "Comma")
      i == IF e.ok THEN const_expr.next_token + 1 ELSE const_expr.next_token
      strings == Run(<<"parser_string_literal_list">>, const_expr.parser, i)
  IN ParserResult(strings.next_token,
       add_state(e.state, giveup_to_expected(strings.state)), strings.parser)

parser_static_assert_declaration(p, begin) ==
  IF begin # end /\ TokenType(begin) = "StaticAssert"
    THEN LET arguments == parser_parens(p, begin + 1, <<"static_assert_args_production">>,
                                        "LeftParen", "RightParen")
             e == IF is_success(arguments.state)
                    THEN expect_end_token(arguments.state, begin, arguments.next_token,
                                          "Semicolon")
                    ELSE [ok |-> FALSE, state |-> arguments.state]
             i == IF e.ok THEN arguments.next_token + 1 ELSE arguments.next_token
         IN ParserResult(i,
              add_state(ParserSuccess(SyntaxTree("StaticAssertDeclaration", NoToken)), e.state),
              arguments.parser)
    ELSE ParserResult(end, make_error("GiveUp", begin, "static assert declaration"), p)

\* The lambda array_declarator_production of parser_direct_declarator.
array_declarator_production(p, begin) ==
  IF begin # end
    THEN LET array_token == begin - 1
         IN IF TokenType(begin) = "RightBracket"
              THEN ParserResult(begin,
                     ParserSuccess(SyntaxTree("ArrayVLADeclarator", array_token)), p)
            ELSE IF TokenType(begin) = "Times" /\ begin + 1 # end
                      /\ TokenType(begin + 1) = "RightBracket"
              THEN ParserResult(begin + 1,
                     ParserSuccess(SyntaxTree("ArrayVLADeclarator", array_token)), p)
            ELSE IF TokenType(begin) = "Static"
              THEN LET decl == ParserSuccess(SyntaxTree("ArrayStaticDeclarator", array_token))
                       quals == Run(<<"parser_type_qualifier_list">>, p, begin + 1)
                       has_quals == ~is_giveup(quals.state)
                       decl1 == IF has_quals
                                  THEN add_state(decl,
                                         giveup_to_expected_what(quals.state,
                                           "qualifiers for array declarator in direct declarator"))
                                  ELSE decl
                       i == IF has_quals THEN quals.next_token ELSE begin + 1
                       assign == Run(<<"parser_assignment_expression">>, quals.parser, i)
                   IN ParserResult(assign.next_token,
                        add_state(decl1,
                          giveup_to_expected_what(assign.state,
                            "expression for array length in direct declarator")),
                        assign.parser)
            ELSE LET quals == Run(<<"parser_type_qualifier_list">>, p, begin)
                     qual_it == quals.next_token
                 IN IF ~is_giveup(quals.state) /\ qual_it # end /\ TokenType(qual_it) = "Static"
                      THEN LET assign == Run(<<"parser_assignment_expression">>, quals.parser, qual_it + 1)
                               decl == IF is_success(assign.state)
                                         THEN ParserSuccess(
                                                SyntaxTree("ArrayStaticDeclarator", array_token))
                                         ELSE ParserSuccess(nullptr)
                               decl1 == add_state(decl,
                                          giveup_to_expected_what(quals.state,
                                            "qualifiers for array declarator in direct declarator"))
                           IN ParserResult(assign.next_token,
                                add_state(decl1,
                                  giveup_to_expected_what(assign.state,
                                    "expression for array length in direct declarator")),
                                assign.parser)
                    ELSE IF qual_it # end /\ TokenType(qual_it) = "Times"
                      THEN LET decl == ParserSuccess(SyntaxTree("ArrayVLADeclarator", array_token))
                           IN ParserResult(qual_it + 1,
                                IF ~is_giveup(quals.state)
                                  THEN add_state(decl, quals.state) ELSE decl,
                                quals.parser)
                      ELSE LET assign == Run(<<"parser_assignment_expression">>, quals.parser,
                                           IF qual_it # end THEN qual_it ELSE begin)
                               decl == ParserSuccess(SyntaxTree("ArrayDeclarator", array_token))
                               decl1 == IF ~is_giveup(quals.state)
                                          THEN add_state(decl, quals.state) ELSE decl
                               i1 == IF ~is_giveup(quals.state) THEN qual_it ELSE begin
                               decl2 == IF ~is_giveup(assign.state)
                                          THEN add_state(decl1, assign.state) ELSE decl1
                               i2 == IF ~is_giveup(assign.state) THEN assign.next_token ELSE i1
                           IN ParserResult(i2, decl2, assign.parser)
    ELSE ParserResult(end, make_error("GiveUp", begin, "direct declarator"), p)

\* The lambda ident_or_decl_production of parser_direct_declarator.
ident_or_decl_production(p, begin) ==
  parser_one_of(p, begin, "identifier or declarator inside parentheses",
    << <<"parser_identifier">>,
       <<"parser_parens", <<"parser_declarator">>, "LeftParen", "RightParen">> >>)

RECURSIVE parser_direct_declarator_loop(_, _, _)
parser_direct_declarator_loop(p, i, direct_decl) ==
  IF i # end /\ TokenType(i) \in {"LeftBracket", "LeftParen"}
    THEN LET r == IF TokenType(i) = "LeftBracket"
                    THEN parser_parens(p, i, <<"array_declarator_production">>,
                                       "LeftBracket", "RightBracket")
                    ELSE parser_parens(p, i,
                           <<"parser_opt", <<"parser_parameter_type_list">> >>,
                           "LeftParen", "RightParen")
             direct_decl1 == add_state(direct_decl, giveup_to_expected(r.state))
             super_decl == add_state(ParserSuccess(SyntaxTree("DirectDeclarator", NoToken)),
                                     direct_decl1)
         IN IF r.next_token <= i
              THEN ParserResult(r.next_token, super_decl, Stalled(r.parser))
              ELSE parser_direct_declarator_loop(r.parser, r.next_token, super_decl)
    ELSE ParserResult(i, direct_decl, p)

parser_direct_declarator(p, begin) ==
  IF begin # end /\ TokenType(begin) \in {"Identifier", "LeftParen"}
    THEN LET r == Run(<<"ident_or_decl_production">>, p, begin)
         IN IF ~is_giveup(r.state)
              THEN parser_direct_declarator_loop(r.parser, r.next_token,
                     add_state(ParserSuccess(SyntaxTree("DirectDeclarator", NoToken)),
                               giveup_to_expected(r.state)))
              ELSE ParserResult(end, make_error("GiveUp", begin, "direct declarator"), r.parser)
    ELSE ParserResult(end, make_error("GiveUp", begin, "direct declarator"), p)

parser_is_declarator(p, begin) ==
  begin # end /\ TokenType(begin) \in {"Times", "Identifier", "LeftParen"}

parser_declarator(p, begin) ==
  IF begin # end
    THEN LET ptr == Run(<<"parser_pointer">>, p, begin)
             declarator == ParserSuccess(SyntaxTree("Declarator", NoToken))
             declarator1 == IF ~is_giveup(ptr.state)
                              THEN add_state(declarator, ptr.state) ELSE declarator
             i == IF ptr.next_token # end THEN ptr.next_token ELSE begin
             dir == Run(<<"parser_direct_declarator">>, ptr.parser, i)
         IN ParserResult(dir.next_token, add_state(declarator1, dir.state), dir.parser)
    ELSE ParserResult(end, make_error("GiveUp", begin, "declarator"), p)

parser_init_declarator(p, begin) ==
  IF begin # end
    THEN LET d == Run(<<"parser_declarator">>, p, begin)
             decl_it == d.next_token
         IN IF ~is_giveup(d.state)
              THEN LET init_decl == add_state(
                                      ParserSuccess(SyntaxTree("InitDeclarator", NoToken)),
                                      d.state)
                   IN IF decl_it # end /\ TokenType(decl_it) = "Assign"
                        THEN LET init == Run(<<"parser_initializer">>, d.parser, decl_it + 1)
                             IN ParserResult(init.next_token,
                                  add_state(init_decl,
                                    giveup_to_expected_what(init.state,
                                      "initializer for init declarator")),
                                  init.parser)
                        ELSE ParserResult(decl_it, init_decl, d.parser)
              ELSE ParserResult(end, make_error("GiveUp", begin, "init declarator"), d.parser)
    ELSE ParserResult(end, make_error("GiveUp", begin, "init declarator"), p)

parser_init_declarator_list(p, begin) ==
  parser_list_of(p, begin, <<"parser_init_declarator">>, FALSE)

StorageClassTokens == {"Typedef", "Extern", "Static", "ThreadLocal", "Auto", "Register"}

parser_storage_class_specifier(p, begin) ==
  IF begin # end /\ TokenType(begin) \in StorageClassTokens
    THEN ParserResult(begin + 1, ParserSuccess(SyntaxTree("StorageClassSpecifier", begin)), p)
    ELSE ParserResult(end, make_error("GiveUp", begin, "storage class specifier"), p)

parser_function_specifier(p, begin) ==
  IF begin # end /\ TokenType(begin) \in {"Inline", "Noreturn", "Stdcall"}
    THEN ParserResult(begin + 1, ParserSuccess(SyntaxTree("FunctionSpecifier", begin)), p)
  ELSE IF begin # end /\ TokenType(begin) = "Declspec"
    THEN LET identifier == parser_parens(p, begin + 1, <<"parser_identifier">>,
                                         "LeftParen", "RightParen")
             func_spec == IF is_success(identifier.state)
                            THEN ParserSuccess(SyntaxTree("FunctionSpecifier", begin))
                            ELSE ParserSuccess(nullptr)
         IN ParserResult(identifier.next_token,
              add_state(func_spec,
                        giveup_to_expected_what(identifier.state, "declspec argument")),
              identifier.parser)
  ELSE ParserResult(end, make_error("GiveUp", begin, "function specifier"), p)

\* The lambda alignas_arg_production of parser_alignment_specifier.
alignas_arg_production(p, begin) ==
  parser_one_of(p, begin, "type name or constant expression",
    << <<"parser_type_name">>, <<"parser_constant_expression">> >>)

parser_alignment_specifier(p, begin) ==
  IF begin # end /\ TokenType(begin) = "Alignas"
    THEN LET alignas_arg == parser_parens(p, begin + 1, <<"alignas_arg_production">>,
                                          "LeftParen", "RightParen")
             alignas_spec == add_node(ParserSuccess(nullptr),
                                      SyntaxTree("AlignmentSpecifier", begin))
         IN ParserResult(alignas_arg.next_token,
              add_state(alignas_spec,
                        giveup_to_expected_what(alignas_arg.state, "alignas argument")),
              alignas_arg.parser)
    ELSE ParserResult(end, make_error("GiveUp", begin, "alignment specifier"), p)

parser_declaration_specifier(p, begin) ==
  parser_one_of(p, begin, "declaration specifier",
    << <<"parser_storage_class_specifier">>, <<"parser_type_specifier">>,
       <<"parser_type_qualifier">>, <<"parser_function_specifier">>,
       <<"parser_alignment_specifier">> >>)

parser_declaration_specifiers(p, begin) ==
  LET decl_spec == parser_one_many_of(p, begin, "declaration specifiers",
                                      <<"parser_declaration_specifier">>)
      decl_specs == IF is_success(decl_spec.state)
                      THEN add_node(ParserSuccess(nullptr),
                                    SyntaxTree("DeclarationSpecifiers", NoToken))
                      ELSE ParserSuccess(nullptr)
  IN ParserResult(decl_spec.next_token, add_state(decl_specs, decl_spec.state),
                  decl_spec.parser)

parser_declaration(p, begin) ==
  IF begin # end
    THEN IF TokenType(begin) = "StaticAssert"
           THEN Run(<<"parser_static_assert_declaration">>, p, begin)
           ELSE LET ds == Run(<<"parser_declaration_specifiers">>, p, begin)
                    decl_it == ds.next_token
                IN IF ~is_giveup(ds.state)
                     THEN LET declaration ==
                                add_state(add_node(ParserSuccess(nullptr),
                                                   SyntaxTree("Declaration", NoToken)),
                                          ds.state)
                              has_list == decl_it # end /\ TokenType(decl_it) # "Semicolon"
                              list == Run(<<"parser_init_declarator_list">>, ds.parser, decl_it)
                              declaration1 ==
                                IF has_list
                                  THEN add_state(declaration, giveup_to_expected(list.state))
                                  ELSE declaration
                              i == IF has_list THEN list.next_token ELSE decl_it
                              e == expect_token(declaration1, i, "Semicolon")
                          IN ParserResult(IF e.ok THEN i + 1 ELSE i, e.state,
                                          IF has_list THEN list.parser ELSE ds.parser)
                     ELSE ParserResult(end, make_error("GiveUp", begin, "declaration"),
                                       ds.parser)
    ELSE ParserResult(end, make_error("GiveUp", begin, "declaration"), p)

parser_enumeration_constant(p, begin) ==
  IF begin # end /\ TokenType(begin) = "Identifier"
    THEN ParserResult(begin + 1, ParserSuccess(SyntaxTree("Enumerator", begin)), p)
    ELSE ParserResult(end, make_error("GiveUp", begin, "enumerator"), p)

\* The lambda enumerator_production of parser_enum_specifier.
enumerator_production(p, begin) ==
  IF begin # end /\ TokenType(begin) = "Identifier"
    THEN LET enumerator == Run(<<"parser_enumeration_constant">>, p, begin)
             i == enumerator.next_token
         IN IF i # end /\ TokenType(i) = "Assign"
              THEN LET const_expr == Run(<<"parser_constant_expression">>, enumerator.parser, i + 1)
                   IN ParserResult(const_expr.next_token,
                        add_state(enumerator.state,
                          giveup_to_expected_what(const_expr.state, "constant expression")),
                        const_expr.parser)
              ELSE ParserResult(i, enumerator.state, enumerator.parser)
    ELSE ParserResult(end, make_error("GiveUp", begin, "enumerator"), p)

enum_list_production ==
  <<"parser_parens", <<"parser_list_of", <<"enumerator_production">>, TRUE>>,
    "LeftBrace", "RightBrace">>

\* The closing check shared by the enum and the struct-or-union specifier:
\* inside specifiers, a successful specifier must be followed by ';' or a declarator.
missing_semicolon_after(p, spec, i, message) ==
  IF p.is_inside_specifiers /\ is_success(spec) /\ i # end /\ TokenType(i) # "Semicolon"
       /\ ~Run(<<"parser_is_declarator">>, p, i)
    THEN add_error_state(spec, make_error("Error", i - 1, message))
    ELSE spec

parser_enum_specifier(p, begin) ==
  IF begin # end /\ TokenType(begin) = "Enum" /\ begin + 1 # end
    THEN LET enum_spec == ParserSuccess(SyntaxTree("EnumSpecifier", begin))
             i == begin + 1
             identifier == Run(<<"parser_identifier">>, p, i)
             has_ident == TokenType(i) = "Identifier"
             i1 == IF has_ident THEN identifier.next_token ELSE i
             enum_spec1 == IF has_ident THEN add_state(enum_spec, identifier.state)
                           ELSE enum_spec
             has_list == i1 # end /\ TokenType(i1) = "LeftBrace"
             enum_list == Run(enum_list_production, p, i1)
             enum_spec2 ==
               IF has_list THEN add_state(enum_spec1, giveup_to_expected(enum_list.state))
               ELSE IF has_ident THEN enum_spec1
               ELSE add_error_state(
                      add_error_state(enum_spec1,
                        make_error("Error", i, "expected identifier or '{'")),
                      make_error("ErrorNote", begin, "for this enumerator specifier"))
             i2 == IF has_list THEN enum_list.next_token ELSE i1
             p2 == IF has_list THEN enum_list.parser ELSE p
         IN ParserResult(i2,
              missing_semicolon_after(p2, enum_spec2, i2,
                                      "missing ';' after enumerator declaration"),
              p2)
    ELSE ParserResult(end, make_error("GiveUp", begin, "enumerator specifier"), p)

\* The lambda struct_declarator of parser_struct_or_union_specifier.
struct_declarator(p, begin, struct_token) ==
  IF begin # end
    THEN LET struct_decl == ParserSuccess(SyntaxTree("StructDeclarator", NoToken))
         IN IF TokenType(begin) # "Colon"
              THEN LET d == Run(<<"parser_declarator">>, p, begin)
                       struct_decl1 == add_state(struct_decl,
                                         giveup_to_expected_what(d.state, "declarator"))
                       i == d.next_token
                   IN IF i # end /\ TokenType(i) = "Colon"
                        THEN LET c == Run(<<"parser_constant_expression">>, d.parser, i + 1)
                             IN ParserResult(c.next_token,
                                  add_state(struct_decl1,
                                    giveup_to_expected_what(c.state, "constant expression")),
                                  c.parser)
                        ELSE ParserResult(i, struct_decl1, d.parser)
              ELSE LET c == Run(<<"parser_constant_expression">>, p, begin + 1)
                   IN ParserResult(c.next_token,
                        add_state(struct_decl,
                          giveup_to_expected_what(c.state, "constant expression")),
                        c.parser)
    ELSE ParserResult(end, make_error("GiveUp", begin, struct_token \o " declarator"), p)

\* The lambda struct_declaration of parser_struct_or_union_specifier.
struct_declaration(p, begin, struct_token) ==
  IF begin # end
    THEN IF TokenType(begin) = "StaticAssert"
           THEN Run(<<"parser_static_assert_declaration">>, p, begin)
           ELSE LET struct_decl == ParserSuccess(SyntaxTree("StructDeclaration", NoToken))
                    sq == Run(<<"parser_specifier_qualifier_list">>, p, begin)
                    struct_decl1 == add_state(struct_decl,
                                      giveup_to_expected_what(sq.state,
                                                              "specifier qualifier list"))
                    decl_list == parser_list_of(sq.parser, sq.next_token,
                                   <<"struct_declarator", struct_token>>, FALSE)
                    struct_decl2 == IF is_success(decl_list.state)
                                      THEN add_state(struct_decl1, decl_list.state)
                                      ELSE struct_decl1
                    i == IF is_success(decl_list.state) THEN decl_list.next_token
                         ELSE sq.next_token
                    e == expect_token(struct_decl2, i, "Semicolon")
                IN ParserResult(IF e.ok THEN i + 1 ELSE i, e.state, decl_list.parser)
    ELSE ParserResult(end, make_error("GiveUp", begin, struct_token \o " declaration"), p)

\* The lambda struct_declaration_list of parser_struct_or_union_specifier.
struct_declaration_list(p, begin, struct_token) ==
  parser_one_many_of_pred(p, begin, struct_token \o " declaration list",
    <<"struct_declaration", struct_token>>, <<"not", {"RightBrace"}>>)

parser_struct_or_union_specifier(p, begin) ==
  IF begin # end /\ TokenType(begin) \in {"Struct", "Union"} /\ begin + 1 # end
    THEN LET struct_token == TokenTypeToString(TokenType(begin))
             struct_decl_list_production ==
               <<"parser_parens", <<"struct_declaration_list", struct_token>>,
                 "LeftBrace", "RightBrace">>
             struct_spec == ParserSuccess(SyntaxTree("StructOrUnionSpecifier", begin))
             i == begin + 1
             identifier == Run(<<"parser_identifier">>, p, i)
             has_ident == TokenType(i) = "Identifier"
             i1 == IF has_ident THEN identifier.next_token ELSE i
             struct_spec1 == IF has_ident THEN add_state(struct_spec, identifier.state)
                             ELSE struct_spec
             has_list == i1 # end /\ TokenType(i1) = "LeftBrace"
             decl_list == Run(struct_decl_list_production, p, i1)
             struct_spec2 ==
               IF has_list THEN add_state(struct_spec1, giveup_to_expected(decl_list.state))
               ELSE IF has_ident THEN struct_spec1
               ELSE add_error_state(
                      add_error_state(struct_spec1,
                        make_error("Error", i, "expected identifier or '{'")),
                      make_error("ErrorNote", begin,
                                 "for this " \o struct_token \o " specifier"))
             i2 == IF has_list THEN decl_list.next_token ELSE i1
             p2 == IF has_list THEN decl_list.parser ELSE p
         IN ParserResult(i2,
              missing_semicolon_after(p2, struct_spec2, i2,
                "missing ';' after " \o struct_token \o " declaration"),
              p2)
    ELSE ParserResult(end, make_error("GiveUp", begin, "struct or union specifier"), p)

parser_initializer(p, begin) ==
  IF begin # end
    THEN IF TokenType(begin) = "LeftBrace"
           THEN parser_parens(p, begin, <<"parser_initializer_list">>, "LeftBrace", "RightBrace")
           ELSE Run(<<"parser_assignment_expression">>, p, begin)
    ELSE ParserResult(end, make_error("GiveUp", begin, "initializer"), p)

\* The lambda designator_production of parser_initializer_list.
designator_production(p, begin) ==
  IF begin # end /\ TokenType(begin) = "LeftBracket"
    THEN LET subscript == parser_parens(p, begin, <<"parser_constant_expression">>,
                                        "LeftBracket", "RightBracket")
         IN ParserResult(subscript.next_token,
              add_state(ParserSuccess(SyntaxTree("ArraySubscripting", NoToken)),
                        subscript.state),
              subscript.parser)
  ELSE IF begin # end /\ TokenType(begin) = "Dot"
    THEN LET identifier == Run(<<"parser_identifier">>, p, begin + 1)
         IN ParserResult(identifier.next_token,
              add_state(ParserSuccess(SyntaxTree("MemberAccess", NoToken)),
                giveup_to_expected_what(identifier.state, "identifier for designator")),
              identifier.parser)
  ELSE ParserResult(end, make_error("GiveUp", begin, "designator"), p)

RECURSIVE designation_production_loop(_, _, _)
designation_production_loop(p, i, designation) ==
  IF i # end /\ TokenType(i) # "Assign"
    THEN LET d == Run(<<"designator_production">>, p, i)
         IN IF is_giveup(d.state)
              THEN ParserResult(i,
                     add_error_state(designation,
                       make_error("Error", i, "expected assignment operator for designator")),
                     d.parser)
              ELSE LET designation1 == add_state(designation,
                                         giveup_to_expected_what(d.state, "designator"))
                   IN IF d.next_token <= i
                        THEN ParserResult(d.next_token, designation1, Stalled(d.parser))
                        ELSE designation_production_loop(d.parser, d.next_token, designation1)
    ELSE IF i # end /\ TokenType(i) = "Assign"
      THEN ParserResult(i + 1, designation, p)
      ELSE ParserResult(i, designation, p)

\* The lambda designation_production of parser_initializer_list.
designation_production(p, begin) ==
  IF begin # end
    THEN LET d == Run(<<"designator_production">>, p, begin)
         IN IF ~is_giveup(d.state)
              THEN designation_production_loop(d.parser, d.next_token,
                     add_state(ParserSuccess(SyntaxTree("Designation", NoToken)),
                               giveup_to_expected_what(d.state, "designator")))
              ELSE ParserResult(end, make_error("GiveUp", begin, "designation"), d.parser)
    ELSE ParserResult(end, make_error("GiveUp", begin, "designation"), p)

\* The lambda init_list_production of parser_initializer_list.
init_list_production(p, begin) ==
  IF begin # end
    THEN LET designation == Run(<<"designation_production">>, p, begin)
         IN IF ~is_giveup(designation.state)
              THEN LET init == Run(<<"parser_initializer">>, designation.parser, designation.next_token)
                       init_list == add_state(ParserSuccess(nullptr), designation.state)
                   IN ParserResult(init.next_token,
                        add_state(init_list,
                                  giveup_to_expected_what(init.state, "initializer")),
                        init.parser)
              ELSE LET init == Run(<<"parser_initializer">>, designation.parser, begin)
                   IN ParserResult(init.next_token,
                        add_state(ParserSuccess(nullptr), init.state), init.parser)
    ELSE ParserResult(end, make_error("GiveUp", begin, "initializer list"), p)

parser_initializer_list(p, begin) ==
  LET inits == parser_list_of(p, begin, <<"init_list_production">>, TRUE)
  IN IF ~is_giveup(inits.state)
       THEN ParserResult(inits.next_token,
              add_state(ParserSuccess(SyntaxTree("InitializerList", NoToken)), inits.state),
              inits.parser)
       ELSE ParserResult(end, make_error("GiveUp", begin, "initializer list"), inits.parser)

\* The lambda compound_literal_production of parser_postfix_expression.
compound_literal_production(p, begin) ==
  IF begin # end
    THEN LET type_name == parser_parens(p, begin, <<"parser_type_name">>,
                                        "LeftParen", "RightParen")
         IN IF ~is_giveup(type_name.state)
              THEN LET il == parser_parens(type_name.parser, type_name.next_token,
                               <<"parser_initializer_list">>, "LeftBrace", "RightBrace")
                   IN IF ~is_giveup(il.state)
                        THEN ParserResult(il.next_token,
                               add_state(
                                 add_state(ParserSuccess(SyntaxTree("CompoundLiteral", NoToken)),
                                           type_name.state),
                                 il.state),
                               il.parser)
                        ELSE ParserResult(end, make_error("GiveUp", begin, "compound literal"),
                                          il.parser)
              ELSE ParserResult(end, make_error("GiveUp", begin, "compound literal"),
                                type_name.parser)
    ELSE ParserResult(end, make_error("GiveUp", begin, "compound literal"), p)

\* The lambda postfix_production of parser_postfix_expression.
postfix_production(p, begin) ==
  IF begin = end
    THEN ParserResult(end, make_error("GiveUp", begin, "postfix operator"), p)
  ELSE IF TokenType(begin) = "LeftBracket"
    THEN LET expression == Run(<<"parser_expression">>, p, begin + 1)
             expr_it == expression.next_token
             e == expect_end_token(expression.state, begin, expr_it, "RightBracket")
         IN IF e.ok
              THEN ParserResult(expr_it + 1,
                     add_state(ParserSuccess(SyntaxTree("ArraySubscripting", begin)),
                               giveup_to_expected_what(e.state, "expression")),
                     expression.parser)
              ELSE ParserResult(expr_it, e.state, expression.parser)
  ELSE IF TokenType(begin) = "LeftParen"
    THEN LET postfix_op == ParserSuccess(SyntaxTree("FunctionCall", begin))
         IN IF begin + 1 # end /\ TokenType(begin + 1) = "RightParen"
              THEN ParserResult(begin + 2, postfix_op, p)
              ELSE LET argument_list ==
                         parser_parens(p, begin,
                           <<"parser_list_of", <<"parser_assignment_expression">>, FALSE>>,
                           "LeftParen", "RightParen")
                       arguments ==
                         add_state(ParserSuccess(SyntaxTree("ArgumentExpressionList", NoToken)),
                           giveup_to_expected_what(argument_list.state, "argument list"))
                   IN ParserResult(argument_list.next_token, add_state(postfix_op, arguments),
                                   argument_list.parser)
  ELSE IF TokenType(begin) \in {"Dot", "RightArrow"}
    THEN LET node_type == IF TokenType(begin) = "Dot" THEN "MemberAccess"
                          ELSE "PointerMemberAccess"
             identifier == Run(<<"parser_identifier">>, p, begin + 1)
         IN ParserResult(identifier.next_token,
              add_state(ParserSuccess(SyntaxTree(node_type, begin)),
                        giveup_to_expected(identifier.state)),
              identifier.parser)
  ELSE IF TokenType(begin) \in {"Increment", "Decrement"}
    THEN LET node_type == IF TokenType(begin) = "Increment" THEN "PostfixIncrement"
                          ELSE "PostfixDecrement"
         IN ParserResult(begin + 1, ParserSuccess(SyntaxTree(node_type, begin)), p)
  ELSE ParserResult(end, make_error("GiveUp", begin, "postfix operator"), p)

RECURSIVE parser_postfix_expression_loop(_, _, _)
parser_postfix_expression_loop(p, i, expr) ==
  LET op == Run(<<"postfix_production">>, p, i)
  IN IF ~is_giveup(op.state)
       THEN IF op.next_token <= i
              THEN ParserResult(op.next_token, add_state(op.state, expr), Stalled(op.parser))
              ELSE parser_postfix_expression_loop(op.parser, op.next_token,
                                                  add_state(op.state, expr))
       ELSE ParserResult(i, expr, op.parser)

parser_postfix_expression(p, begin) ==
  IF begin # end
    THEN LET expr == parser_one_of(p, begin, "compound literal or expression",
                       << <<"compound_literal_production">>,
                          <<"parser_primary_expression">> >>)
         IN IF is_giveup(expr.state)
              THEN ParserResult(end, expr.state, expr.parser)
              ELSE parser_postfix_expression_loop(expr.parser, expr.next_token, expr.state)
    ELSE ParserResult(end, make_error("GiveUp", begin, "postfix expression"), p)

RECURSIVE parser_unary_expression(_, _)

\* The lambda incremental_unary_production of parser_unary_expression.
incremental_unary_production(p, begin) ==
  LET incr == parser_operator(p, begin, "UnaryExpression", {"Increment", "Decrement"})
  IN IF ~is_giveup(incr.state)
       THEN LET unary_expr == Run(<<"parser_unary_expression">>, incr.parser, incr.next_token)
            IN ParserResult(unary_expr.next_token,
                 add_state(incr.state,
                   giveup_to_expected_what(unary_expr.state, "unary expression")),
                 unary_expr.parser)
       ELSE ParserResult(end, make_error("GiveUp", begin, "unary operator"), incr.parser)

UnaryOperatorTokens ==
  {"BitwiseAnd", "BitwiseNot", "Times", "Plus", "Minus", "NotEqualTo"}

\* The lambda unary_cast_production of parser_unary_expression.
unary_cast_production(p, begin) ==
  LET unary_op == parser_operator(p, begin, "UnaryExpression", UnaryOperatorTokens)
  IN IF ~is_giveup(unary_op.state)
       THEN LET cast_expr == Run(<<"parser_cast_expression">>, unary_op.parser, unary_op.next_token)
            IN ParserResult(cast_expr.next_token,
                 add_state(unary_op.state, cast_expr.state), cast_expr.parser)
       ELSE ParserResult(end, make_error("GiveUp", begin, "basic unary expression"),
                         unary_op.parser)

\* The lambda parens_type_name of parser_unary_expression.
parens_type_name(p, begin) ==
  IF TokenType(begin) = "LeftParen"
    THEN LET type_name == Run(<<"parser_type_name">>, p, begin + 1)
             type_it == type_name.next_token
         IN IF is_success(type_name.state)
              THEN LET e == expect_end_token(type_name.state, begin, type_it, "RightParen")
                   IN ParserResult(IF e.ok THEN type_it + 1 ELSE type_it, e.state,
                                   type_name.parser)
              ELSE ParserResult(type_it, type_name.state, type_name.parser)
    ELSE ParserResult(end, make_error("GiveUp", begin, "type name inside parentheses"), p)

\* The lambda size_of_production of parser_unary_expression.
size_of_production(p, begin) ==
  IF TokenType(begin) = "Sizeof"
    THEN LET unary_expr == parser_one_of(p, begin + 1, "type name, or unary expression",
                             << <<"parens_type_name">>, <<"parser_unary_expression">> >>)
         IN ParserResult(unary_expr.next_token,
              add_state(ParserSuccess(SyntaxTree("UnaryExpression", begin)),
                giveup_to_expected_what(unary_expr.state,
                  "unary expression or type name inside parentheses")),
              unary_expr.parser)
  ELSE IF TokenType(begin) = "Alignof"
    THEN LET type_name == Run(<<"parens_type_name">>, p, begin + 1)
         IN ParserResult(type_name.next_token,
              add_state(ParserSuccess(SyntaxTree("UnaryExpression", begin)),
                giveup_to_expected_what(type_name.state, "type name inside parentheses")),
              type_name.parser)
  ELSE ParserResult(end, make_error("GiveUp", begin, "sizeof/alignof expression"), p)

parser_unary_expression(p, begin) ==
  IF begin = end
    THEN ParserResult(end, make_error("GiveUp", begin, "unary expression"), p)
    ELSE parser_one_of(p, begin, "unary expression",
           << <<"parser_postfix_expression">>, <<"incremental_unary_production">>,
              <<"size_of_production">>, <<"unary_cast_production">> >>)

\* The lambda cast_production of parser_cast_expression.
cast_production(p, begin) ==
  IF begin # end /\ TokenType(begin) = "LeftParen"
    THEN LET type_name == Run(<<"parser_type_name">>, p, begin + 1)
             type_it == type_name.next_token
         IN IF ~is_giveup(type_name.state)
                 /\ expect_end_token(type_name.state, begin, type_it, "RightParen").ok
              THEN LET cast_expr == Run(<<"parser_cast_expression">>, type_name.parser, type_it + 1)
                       cast_it == cast_expr.next_token
                   IN IF cast_it # end /\ TokenType(cast_it) # "LeftBrace"
                        THEN ParserResult(cast_it,
                               add_state(
                                 add_state(ParserSuccess(SyntaxTree("CastExpression", NoToken)),
                                           type_name.state),
                                 giveup_to_expected_what(cast_expr.state, "cast expression")),
                               cast_expr.parser)
                        ELSE ParserResult(end, make_error("GiveUp", begin, "cast expression"),
                                          cast_expr.parser)
              ELSE ParserResult(end, make_error("GiveUp", begin, "cast expression"),
                                type_name.parser)
    ELSE ParserResult(end, make_error("GiveUp", begin, "cast expression"), p)

parser_cast_expression(p, begin) ==
  parser_one_of(p, begin, "cast or unary expression",
    << <<"cast_production">>, <<"parser_unary_expression">> >>)

\* The ten binary levels between the cast expression and the conditional
\* expression.  Each is, for its row [rule, lhs, type, ops, what],
\*   if (begin != end)
\*     return parser_left_binary_operator(lhs, parser_operator(type, ops), lhs)
\*              (parser, begin, end);
\*   return ParserResult(end, make_error(GiveUp, begin, what));
BinaryLevels ==
  << [rule |-> "parser_multiplicative_expression", lhs |-> "parser_cast_expression",
      type |-> "MultiplicativeExpression", ops |-> {"Times", "Divide", "Percent"},
      what |-> "multiplicative expression"],
     [rule |-> "parser_additive_expression", lhs |-> "parser_multiplicative_expression",
      type |-> "AdditiveExpression", ops |-> {"Plus", "Minus"},
      what |-> "additive expression"],
     [rule |-> "parser_shift_expression", lhs |-> "parser_additive_expression",
      type |-> "ShiftExpression", ops |-> {"BitwiseLeftShift", "BitwiseRightShift"},
      what |-> "shift expression"],
     [rule |-> "parser_relational_expression", lhs |-> "parser_shift_expression",
      type |-> "RelationalExpression",
      ops |-> {"LessThan", "GreaterThan", "LessEqual", "GreaterEqual"},
      what |-> "relational expression"],
     [rule |-> "parser_equality_expression", lhs |-> "parser_relational_expression",
      type |-> "EqualityExpression", ops |-> {"EqualsTo", "NotEqualTo"},
      what |-> "equality expression"],
     [rule |-> "parser_and_expression", lhs |-> "parser_equality_expression",
      type |-> "AndExpression", ops |-> {"BitwiseAnd"},
      what |-> "and expression"],
     [rule |-> "parser_exclusive_or_expression", lhs |-> "parser_and_expression",
      type |-> "ExclusiveOrExpression", ops |-> {"BitwiseXor"},
      what |-> "exclusive or expression"],
     [rule |-> "parser_inclusive_or_expression", lhs |-> "parser_exclusive_or_expression",
      type |-> "InclusiveOrExpression", ops |-> {"BitwiseOr"},
      what |-> "inclusive or expression"],
     [rule |-> "parser_logical_and_expression", lhs |-> "parser_inclusive_or_expression",
      type |-> "LogicalAndExpression", ops |-> {"LogicalAnd"},
      what |-> "logical and expression"],
     [rule |-> "parser_logical_or_expression", lhs |-> "parser_logical_and_expression",
      type |-> "LogicalOrExpression", ops |-> {"LogicalOr"},
      what |-> "logical or expression"] >>

\* Every level hands the same (parser, begin) down to the level below before
\* doing anything else, so the levels 1..top run innermost first: the cast
\* expression is parsed, then level 1 continues from its result, then level 2
\* from that, up to level top.  `lhs` is what level n - 1 returned.
RECURSIVE binary_levels(_, _, _)
binary_levels(lhs, n, top) ==
  IF n > top THEN lhs
  ELSE IF is_giveup(lhs.state) THEN ParserResult(end, lhs.state, lhs.parser)
  ELSE binary_levels(
         parser_left_binary_operator_loop(lhs.parser, lhs.next_token, lhs.state,
           <<"parser_operator", BinaryLevels[n].type, BinaryLevels[n].ops>>,
           <<BinaryLevels[n].lhs>>),
         n + 1, top)

binary_expression(p, begin, top) ==
  IF begin # end
    THEN binary_levels(Run(<<"parser_cast_expression">>, p, begin), 1, top)
    ELSE ParserResult(end, make_error("GiveUp", begin, BinaryLevels[top].what), p)

parser_multiplicative_expression(p, begin) == binary_expression(p, begin, 1)
parser_additive_expression(p, begin) == binary_expression(p, begin, 2)
parser_shift_expression(p, begin) == binary_expression(p, begin, 3)
parser_relational_expression(p, begin) == binary_expression(p, begin, 4)
parser_equality_expression(p, begin) == binary_expression(p, begin, 5)
parser_and_expression(p, begin) == binary_expression(p, begin, 6)
parser_exclusive_or_expression(p, begin) == binary_expression(p, begin, 7)
parser_inclusive_or_expression(p, begin) == binary_expression(p, begin, 8)
parser_logical_and_expression(p, begin) == binary_expression(p, begin, 9)
parser_logical_or_expression(p, begin) == binary_expression(p, begin, 10)

parser_conditional_expression(p, begin) ==
  IF begin # end
    THEN LET or_expr == Run(<<"parser_logical_or_expression">>, p, begin)
             or_it == or_expr.next_token
         IN IF ~is_giveup(or_expr.state)
              THEN IF or_it # end /\ TokenType(or_it) = "QuestionMark"
                     THEN LET condition ==
                                add_state(
                                  ParserSuccess(SyntaxTree("ConditionalExpression", NoToken)),
                                  or_expr.state)
                              true_expr == Run(<<"parser_expression">>, or_expr.parser, or_it + 1)
                              true_it == true_expr.next_token
                              condition1 ==
                                add_state(condition,
                                  giveup_to_expected_what(true_expr.state, "expression"))
                              e == expect_end_token(condition1, or_it, true_it, "Colon")
                          IN IF e.ok
                               THEN LET false_expr ==
                                          Run(<<"parser_conditional_expression">>, true_expr.parser,
                                                                        true_it + 1)
                                    IN ParserResult(false_expr.next_token,
                                         add_state(e.state,
                                           giveup_to_expected_what(false_expr.state,
                                                                   "expression")),
                                         false_expr.parser)
                               ELSE ParserResult(true_it, e.state, true_expr.parser)
                     ELSE ParserResult(or_it, or_expr.state, or_expr.parser)
              ELSE ParserResult(end, make_error("GiveUp", begin, "conditional expression"),
                                or_expr.parser)
    ELSE ParserResult(end, make_error("GiveUp", begin, "conditional expression"), p)

AssignOperatorTokens ==
  {"Assign", "TimesAssign", "DivideAssign", "ModuloAssign", "PlusAssign", "MinusAssign",
   "BitwiseLeftShiftAssign", "BitwiseRightShiftAssign", "BitwiseAndAssign",
   "BitwiseXorAssign", "BitwiseOrAssign"}

parser_assignment_expression(p, begin) ==
  IF begin = end
    THEN ParserResult(end, make_error("GiveUp", begin, "assignment expression"), p)
    ELSE parser_one_of(p, begin, "assignment or conditional expression",
           << <<"parser_right_binary_operator", <<"parser_unary_expression">>,
                <<"parser_operator", "AssignmentExpression", AssignOperatorTokens>>,
                <<"parser_assignment_expression">> >>,
              <<"parser_conditional_expression">> >>)

parser_expression(p, begin) ==
  IF begin # end
    THEN parser_left_binary_operator(p, begin, <<"parser_assignment_expression">>,
                                     <<"parser_operator", "Expression", {"Comma"}>>,
                                     <<"parser_assignment_expression">>)
    ELSE ParserResult(end, make_error("GiveUp", begin, "expression"), p)

\* The lambda parser_parens_expr of parser_primary_expression.
parser_parens_expr(p, begin) ==
  IF begin # end /\ TokenType(begin) = "LeftParen"
    THEN LET expr == Run(<<"parser_expression">>, p, begin + 1)
             e == IF ~is_giveup(expr.state)
                    THEN expect_end_token(expr.state, begin, expr.next_token, "RightParen")
                    ELSE [ok |-> FALSE, state |-> expr.state]
         IN ParserResult(IF e.ok THEN expr.next_token + 1 ELSE expr.next_token,
                         giveup_to_expected_what(e.state, "expression"), expr.parser)
    ELSE ParserResult(end, make_error("GiveUp", begin, "expression"), p)

parser_primary_expression(p, begin) ==
  parser_one_of(p, begin, "primary expression",
    << <<"parser_identifier">>, <<"parser_constant">>,
       <<"parser_string_literal_list">>, <<"parser_parens_expr">> >>)

parser_jump_statement(p, begin) ==
  IF begin # end /\ TokenType(begin) = "Goto"
    THEN LET ident == Run(<<"parser_identifier">>, p, begin + 1)
             jump_stmt == IF is_success(ident.state)
                            THEN add_node(ParserSuccess(nullptr),
                                          SyntaxTree("JumpStatement", begin))
                            ELSE ParserSuccess(nullptr)
             jump_stmt1 == add_state(jump_stmt,
                             giveup_to_expected_what(ident.state, "label for goto statement"))
             e == expect_token(jump_stmt1, ident.next_token, "Semicolon")
         IN ParserResult(IF e.ok THEN ident.next_token + 1 ELSE ident.next_token,
                         e.state, ident.parser)
  ELSE IF begin # end /\ TokenType(begin) \in {"Continue", "Break"}
    THEN LET e == expect_token(ParserSuccess(nullptr), begin + 1, "Semicolon")
             jump_stmt == IF is_success(e.state)
                            THEN add_node(e.state, SyntaxTree("JumpStatement", begin))
                            ELSE e.state
         IN ParserResult(IF e.ok THEN begin + 2 ELSE begin + 1, jump_stmt, p)
  ELSE IF begin # end /\ TokenType(begin) = "Return"
    THEN LET jump_stmt == ParserSuccess(SyntaxTree("JumpStatement", begin))
             expr == Run(<<"parser_expression">>, p, begin + 1)
             has_expr == ~is_giveup(expr.state)
             jump_stmt1 == IF has_expr THEN add_state(jump_stmt, expr.state) ELSE jump_stmt
             i == IF has_expr THEN expr.next_token ELSE begin + 1
             e == expect_token(jump_stmt1, i, "Semicolon")
         IN ParserResult(IF e.ok THEN i + 1 ELSE i, e.state, expr.parser)
  ELSE ParserResult(end, make_error("GiveUp", begin, "jump statement"), p)

ParensExpression == <<"parser_parens", <<"parser_expression">>, "LeftParen", "RightParen">>

\* The lambda while_statement of parser_iteration_statement.
while_statement(p, begin) ==
  IF TokenType(begin) = "While"
    THEN LET iter_stmt == ParserSuccess(SyntaxTree("IterationStatement", begin))
             expr == Run(ParensExpression, p, begin + 1)
             iter_stmt1 == add_state(iter_stmt,
                             giveup_to_expected_what(expr.state, "condition for while-clause"))
             statement == Run(<<"parser_statement">>, expr.parser, expr.next_token)
         IN ParserResult(statement.next_token,
              add_state(iter_stmt1,
                giveup_to_expected_what(statement.state, "statement for while-clause")),
              statement.parser)
    ELSE ParserResult(end, make_error("GiveUp", begin, ""), p)

\* The lambda do_while_statement of parser_iteration_statement.
do_while_statement(p, begin) ==
  IF TokenType(begin) = "Do"
    THEN LET iter_stmt == ParserSuccess(SyntaxTree("IterationStatement", begin))
             statement == Run(<<"parser_statement">>, p, begin + 1)
             iter_stmt1 == add_state(iter_stmt,
                             giveup_to_expected_what(statement.state,
                                                     "statement for do-while-clause"))
             e1 == expect_token(iter_stmt1, statement.next_token, "While")
             i1 == IF e1.ok THEN statement.next_token + 1 ELSE statement.next_token
             expr == Run(ParensExpression, statement.parser, i1)
             iter_stmt2 == add_state(e1.state,
                             giveup_to_expected_what(expr.state,
                                                     "condition for do-while-clause"))
             e2 == expect_token(iter_stmt2, expr.next_token, "Semicolon")
         IN ParserResult(IF e2.ok THEN expr.next_token + 1 ELSE expr.next_token,
                         e2.state, expr.parser)
    ELSE ParserResult(end, make_error("GiveUp", begin, ""), p)

\* One optional expression of the for clause: the expression, or a Nothing node.
for_expression(p, i, expressions) ==
  LET expr == Run(<<"parser_expression">>, p, i)
  IN IF ~is_giveup(expr.state)
       THEN ParserResult(expr.next_token, add_state(expressions, expr.state), expr.parser)
       ELSE ParserResult(i, add_node(expressions, SyntaxTree("Nothing", NoToken)),
                         expr.parser)

\* The lambda for_exprs_production of for_statement.
for_exprs_production(p, begin) ==
  IF begin # end
    THEN LET expressions == ParserSuccess(SyntaxTreeNone)
             declaration == Run(<<"parser_declaration">>, p, begin)
             first == IF ~is_giveup(declaration.state)
                        THEN ParserResult(declaration.next_token,
                               add_state(expressions, declaration.state), declaration.parser)
                        ELSE LET x == for_expression(declaration.parser, begin, expressions)
                                 e == expect_token(x.state, x.next_token, "Semicolon")
                             IN ParserResult(IF e.ok THEN x.next_token + 1 ELSE x.next_token,
                                             e.state, x.parser)
             second == for_expression(first.parser, first.next_token, first.state)
             e2 == expect_token(second.state, second.next_token, "Semicolon")
             i2 == IF e2.ok THEN second.next_token + 1 ELSE second.next_token
         IN for_expression(second.parser, i2, e2.state)
    ELSE ParserResult(end, make_error("GiveUp", begin, ""), p)

\* The lambda for_statement of parser_iteration_statement.
for_statement(p, begin) ==
  IF TokenType(begin) = "For"
    THEN LET iter_stmt == ParserSuccess(SyntaxTree("IterationStatement", begin))
             expressions == parser_parens(p, begin + 1, <<"for_exprs_production">>,
                                          "LeftParen", "RightParen")
             iter_stmt1 == add_state(iter_stmt,
                             giveup_to_expected_what(expressions.state,
                                                     "expressions separated by ';'"))
             statement == Run(<<"parser_statement">>, expressions.parser, expressions.next_token)
         IN ParserResult(statement.next_token,
              add_state(iter_stmt1,
                giveup_to_expected_what(statement.state, "statement for for-clause")),
              statement.parser)
    ELSE ParserResult(end, make_error("GiveUp", begin, ""), p)

parser_iteration_statement(p, begin) ==
  IF begin # end
    THEN parser_one_of(p, begin, "iteration statement",
           << <<"while_statement">>, <<"do_while_statement">>, <<"for_statement">> >>)
    ELSE ParserResult(end, make_error("GiveUp", begin, "iteration statement"), p)

\* if_statement without its else-clause.
if_statement_without_else(p, begin) ==
  IF TokenType(begin) = "If"
    THEN LET if_stmt == ParserSuccess(SyntaxTree("SelectionStatement", begin))
             expression == Run(ParensExpression, p, begin + 1)
             if_stmt1 == add_state(if_stmt,
                           giveup_to_expected_what(expression.state, "condition for if-clause"))
             statement == Run(<<"parser_statement">>, expression.parser, expression.next_token)
             if_stmt2 == add_state(if_stmt1,
                           giveup_to_expected_what(statement.state, "statement for if-clause"))
         IN ParserResult(statement.next_token, if_stmt2, statement.parser)
    ELSE ParserResult(end, make_error("GiveUp", begin, ""), p)

\* The lambda if_statement of parser_selection_statement.
if_statement(p, begin) ==
  IF TokenType(begin) = "If"
    THEN LET if_stmt == ParserSuccess(SyntaxTree("SelectionStatement", begin))
             expression == Run(ParensExpression, p, begin + 1)
             if_stmt1 == add_state(if_stmt,
                           giveup_to_expected_what(expression.state, "condition for if-clause"))
             statement == Run(<<"parser_statement">>, expression.parser, expression.next_token)
             if_stmt2 == add_state(if_stmt1,
                           giveup_to_expected_what(statement.state, "statement for if-clause"))
             i == statement.next_token
         IN IF i # end /\ TokenType(i) = "Else"
              THEN LET else_stmt == Run(<<"parser_statement">>, statement.parser, i + 1)
                   IN ParserResult(else_stmt.next_token,
                        add_state(if_stmt2,
                          giveup_to_expected_what(else_stmt.state, "statement for else-clause")),
                        else_stmt.parser)
              ELSE ParserResult(i, if_stmt2, statement.parser)
    ELSE ParserResult(end, make_error("GiveUp", begin, ""), p)

\* The lambda switch_statement of parser_selection_statement.
switch_statement(p, begin) ==
  IF TokenType(begin) = "Switch"
    THEN LET switch_stmt == ParserSuccess(SyntaxTree("SelectionStatement", begin))
             expression == Run(ParensExpression, p, begin + 1)
             switch_stmt1 == add_state(switch_stmt,
                               giveup_to_expected_what(expression.state,
                                                       "expression for switch-clause"))
             statement == Run(<<"parser_statement">>, expression.parser, expression.next_token)
         IN ParserResult(statement.next_token,
              add_state(switch_stmt1,
                giveup_to_expected_what(statement.state, "statement for switch-clause")),
              statement.parser)
    ELSE ParserResult(end, make_error("GiveUp", begin, ""), p)

parser_selection_statement(p, begin) ==
  IF begin # end
    THEN parser_one_of(p, begin, "selection statement",
           << <<"if_statement">>, <<"switch_statement">> >>)
    ELSE ParserResult(end, make_error("GiveUp", begin, "selection statement"), p)

parser_expression_statement(p, begin) ==
  IF begin # end
    THEN IF TokenType(begin) = "Semicolon"
           THEN ParserResult(begin + 1, ParserSuccess(SyntaxTree("Nothing", begin)), p)
           ELSE LET expr == Run(<<"parser_expression">>, p, begin)
                    e == expect_token(expr.state, expr.next_token, "Semicolon")
                IN ParserResult(IF e.ok THEN expr.next_token + 1 ELSE expr.next_token,
                                e.state, expr.parser)
    ELSE ParserResult(end, make_error("GiveUp", begin, "expression statement"), p)

\* The lambda decl_or_stmt of block_item_list_production.
decl_or_stmt(p, begin) ==
  parser_one_of(p, begin, "declaration or statement",
    << <<"parser_declaration">>, <<"parser_statement">> >>)

\* The lambda block_item_list_production of parser_compound_statement.
block_item_list_production(p, begin) ==
  LET r == parser_one_many_of(p, begin, "list of block items inside compound statement",
                              <<"decl_or_stmt">>)
  IN IF is_giveup(r.state)
       THEN ParserResult(begin, ParserSuccess(SyntaxTree("Nothing", NoToken)), r.parser)
       ELSE ParserResult(r.next_token, r.state, r.parser)

parser_compound_statement(p, begin) ==
  IF begin # end /\ TokenType(begin) = "LeftBrace"
    THEN LET items == parser_parens(p, begin, <<"block_item_list_production">>,
                                    "LeftBrace", "RightBrace")
             compound_stmt == IF is_success(items.state)
                                THEN add_node(ParserSuccess(nullptr),
                                              SyntaxTree("CompoundStatement", begin))
                                ELSE ParserSuccess(nullptr)
         IN ParserResult(items.next_token,
              add_state(compound_stmt, giveup_to_expected(items.state)), items.parser)
    ELSE ParserResult(end, make_error("GiveUp", begin, "compound statement"), p)

parser_labeled_statement(p, begin) ==
  IF begin # end /\ TokenType(begin) = "Case"
    THEN LET expr == Run(<<"parser_constant_expression">>, p, begin + 1)
             e == expect_token(expr.state, expr.next_token, "Colon")
             expr_it == IF e.ok THEN expr.next_token + 1 ELSE expr.next_token
             statement == Run(<<"parser_statement">>, expr.parser, expr_it)
             label_stmt == IF is_success(e.state) /\ is_success(statement.state)
                             THEN add_node(ParserSuccess(nullptr),
                                           SyntaxTree("LabeledStatement", begin))
                             ELSE ParserSuccess(nullptr)
             label_stmt1 == add_state(label_stmt,
                              giveup_to_expected_what(e.state,
                                "constant expression for case-label"))
         IN ParserResult(statement.next_token,
              add_state(label_stmt1,
                giveup_to_expected_what(statement.state, "statement after case-label")),
              statement.parser)
  ELSE IF begin # end /\ TokenType(begin) = "Default"
    THEN LET label_stmt == ParserSuccess(SyntaxTree("LabeledStatement", begin))
             e == expect_token(label_stmt, begin + 1, "Colon")
             statement == Run(<<"parser_statement">>, p, IF e.ok THEN begin + 2 ELSE begin + 1)
         IN ParserResult(statement.next_token,
              add_state(e.state,
                giveup_to_expected_what(statement.state, "statement after default-label")),
              statement.parser)
  ELSE IF begin # end /\ TokenType(begin) = "Identifier" /\ begin + 1 # end
            /\ TokenType(begin + 1) = "Colon"
    THEN LET statement == Run(<<"parser_statement">>, p, begin + 2)
             label_stmt == IF is_success(statement.state)
                             THEN add_node(ParserSuccess(nullptr),
                                           SyntaxTree("LabeledStatement", begin))
                             ELSE ParserSuccess(nullptr)
         IN ParserResult(statement.next_token,
              add_state(label_stmt,
                giveup_to_expected_what(statement.state, "statement after label")),
              statement.parser)
  ELSE ParserResult(end, make_error("GiveUp", begin, "labeled statement"), p)

parser_statement(p, begin) ==
  parser_one_of(p, begin, "statement",
    << <<"parser_labeled_statement">>, <<"parser_compound_statement">>,
       <<"parser_expression_statement">>, <<"parser_selection_statement">>,
       <<"parser_iteration_statement">>, <<"parser_jump_statement">> >>)

\* The lambda declaration_list of parser_function_definition.
declaration_list(p, begin) ==
  LET decls == parser_one_many_of(p, begin, "declarations", <<"parser_declaration">>)
  IN IF is_success(decls.state)
       THEN ParserResult(decls.next_token,
              add_state(ParserSuccess(SyntaxTree("DeclarationList", NoToken)), decls.state),
              decls.parser)
       ELSE ParserResult(decls.next_token, decls.state, decls.parser)

parser_function_definition(p, begin) ==
  IF begin # end
    THEN LET declspecs == Run(<<"parser_declaration_specifiers">>, p, begin)
         IN IF is_giveup(declspecs.state)
              THEN ParserResult(declspecs.next_token, declspecs.state, declspecs.parser)
              ELSE LET declarator == Run(<<"parser_declarator">>, declspecs.parser, declspecs.next_token)
                   IN IF is_giveup(declarator.state)
                        THEN ParserResult(declarator.next_token, declarator.state,
                                          declarator.parser)
                        ELSE LET decls == Run(<<"declaration_list">>, declarator.parser,
                                                           declarator.next_token)
                                 has_decls == ~is_giveup(decls.state)
                                 i == IF has_decls THEN decls.next_token
                                      ELSE declarator.next_token
                                 compound_stmt == Run(<<"parser_compound_statement">>, decls.parser, i)
                                 func_def ==
                                   IF is_success(declarator.state)
                                        /\ is_success(compound_stmt.state)
                                     THEN add_node(ParserSuccess(nullptr),
                                                   SyntaxTree("FunctionDefinition", NoToken))
                                     ELSE ParserSuccess(nullptr)
                                 func_def1 == add_state(func_def, declspecs.state)
                                 func_def2 == add_state(func_def1, declarator.state)
                                 func_def3 == add_state(func_def2, compound_stmt.state)
                                 func_def4 == IF has_decls
                                                THEN add_state(func_def3, decls.state)
                                                ELSE func_def3
                             IN ParserResult(compound_stmt.next_token, func_def4,
                                             compound_stmt.parser)
    ELSE ParserResult(end, make_error("GiveUp", begin, "function definition"), p)

----------------------------------------------------------------------------
(* Rule application *)

Run(r, p, begin) ==
  CASE r[1] = "parser_one_of" -> parser_one_of(p, begin, r[2], r[3])
    [] r[1] = "parser_parens" -> parser_parens(p, begin, r[2], r[3], r[4])
    [] r[1] = "parser_opt" -> parser_opt(p, begin, r[2])
    [] r[1] = "parser_list_of" -> parser_list_of(p, begin, r[2], r[3])
    [] r[1] = "parser_operator" -> parser_operator(p, begin, r[2], r[3])
    [] r[1] = "parser_left_binary_operator" ->
         parser_left_binary_operator(p, begin, r[2], r[3], r[4])
    [] r[1] = "parser_right_binary_operator" ->
         parser_right_binary_operator(p, begin, r[2], r[3], r[4])
    [] r[1] = "parser_identifier" -> parser_identifier(p, begin)
    [] r[1] = "parser_identifier_list" -> parser_identifier_list(p, begin)
    [] r[1] = "parser_string_literal" -> parser_string_literal(p, begin)
    [] r[1] = "parser_string_literal_list" -> parser_string_literal_list(p, begin)
    [] r[1] = "parser_constant" -> parser_constant(p, begin)
    [] r[1] = "parser_parameter_declaration" -> parser_parameter_declaration(p, begin)
    [] r[1] = "parser_parameter_type_list" -> parser_parameter_type_list(p, begin)
    [] r[1] = "parser_typedef_name" -> parser_typedef_name(p, begin)
    [] r[1] = "parser_atomic_type_specifier" -> parser_atomic_type_specifier(p, begin)
    [] r[1] = "parser_type_specifier" -> parser_type_specifier(p, begin)
    [] r[1] = "parser_type_qualifier" -> parser_type_qualifier(p, begin)
    [] r[1] = "parser_type_qualifier_list" -> parser_type_qualifier_list(p, begin)
    [] r[1] = "parser_pointer" -> parser_pointer(p, begin)
    [] r[1] = "abstract_function_declarator" -> abstract_function_declarator(p, begin)
    [] r[1] = "abstract_array_declarator" -> abstract_array_declarator(p, begin)
    [] r[1] = "parser_abstract_declarator" -> parser_abstract_declarator(p, begin)
    [] r[1] = "parser_type_name" -> parser_type_name(p, begin)
    [] r[1] = "parser_constant_expression" -> parser_constant_expression(p, begin)
    [] r[1] = "static_assert_args_production" -> static_assert_args_production(p, begin)
    [] r[1] = "parser_static_assert_declaration" -> parser_static_assert_declaration(p, begin)
    [] r[1] = "array_declarator_production" -> array_declarator_production(p, begin)
    [] r[1] = "parser_declarator" -> parser_declarator(p, begin)
    [] r[1] = "parser_init_declarator" -> parser_init_declarator(p, begin)
    [] r[1] = "parser_storage_class_specifier" -> parser_storage_class_specifier(p, begin)
    [] r[1] = "parser_function_specifier" -> parser_function_specifier(p, begin)
    [] r[1] = "alignas_arg_production" -> alignas_arg_production(p, begin)
    [] r[1] = "parser_alignment_specifier" -> parser_alignment_specifier(p, begin)
    [] r[1] = "parser_declaration_specifier" -> parser_declaration_specifier(p, begin)
    [] r[1] = "parser_declaration" -> parser_declaration(p, begin)
    [] r[1] = "enumerator_production" -> enumerator_production(p, begin)
    [] r[1] = "parser_enum_specifier" -> parser_enum_specifier(p, begin)
    [] r[1] = "struct_declarator" -> struct_declarator(p, begin, r[2])
    [] r[1] = "struct_declaration" -> struct_declaration(p, begin, r[2])
    [] r[1] = "struct_declaration_list" -> struct_declaration_list(p, begin, r[2])
    [] r[1] = "parser_struct_or_union_specifier" -> parser_struct_or_union_specifier(p, begin)
    [] r[1] = "parser_initializer" -> parser_initializer(p, begin)
    [] r[1] = "init_list_production" -> init_list_production(p, begin)
    [] r[1] = "parser_initializer_list" -> parser_initializer_list(p, begin)
    [] r[1] = "compound_literal_production" -> compound_literal_production(p, begin)
    [] r[1] = "parser_postfix_expression" -> parser_postfix_expression(p, begin)
    [] r[1] = "incremental_unary_production" -> incremental_unary_production(p, begin)
    [] r[1] = "unary_cast_production" -> unary_cast_production(p, begin)
    [] r[1] = "parens_type_name" -> parens_type_name(p, begin)
    [] r[1] = "size_of_production" -> size_of_production(p, begin)
    [] r[1] = "parser_unary_expression" -> parser_unary_expression(p, begin)
    [] r[1] = "cast_production" -> cast_production(p, begin)
    [] r[1] = "parser_cast_expression" -> parser_cast_expression(p, begin)
    [] r[1] = "parser_multiplicative_expression" -> parser_multiplicative_expression(p, begin)
    [] r[1] = "parser_additive_expression" -> parser_additive_expression(p, begin)
    [] r[1] = "parser_shift_expression" -> parser_shift_expression(p, begin)
    [] r[1] = "parser_relational_expression" -> parser_relational_expression(p, begin)
    [] r[1] = "parser_equality_expression" -> parser_equality_expression(p, begin)
    [] r[1] = "parser_and_expression" -> parser_and_expression(p, begin)
    [] r[1] = "parser_exclusive_or_expression" -> parser_exclusive_or_expression(p, begin)
    [] r[1] = "parser_inclusive_or_expression" -> parser_inclusive_or_expression(p, begin)
    [] r[1] = "parser_logical_and_expression" -> parser_logical_and_expression(p, begin)
    [] r[1] = "parser_logical_or_expression" -> parser_logical_or_expression(p, begin)
    [] r[1] = "parser_conditional_expression" -> parser_conditional_expression(p, begin)
    [] r[1] = "parser_assignment_expression" -> parser_assignment_expression(p, begin)
    [] r[1] = "parser_expression" -> parser_expression(p, begin)
    [] r[1] = "parser_parens_expr" -> parser_parens_expr(p, begin)
    [] r[1] = "parser_primary_expression" -> parser_primary_expression(p, begin)
    [] r[1] = "parser_jump_statement" -> parser_jump_statement(p, begin)
    [] r[1] = "while_statement" -> while_statement(p, begin)
    [] r[1] = "do_while_statement" -> do_while_statement(p, begin)
    [] r[1] = "for_exprs_production" -> for_exprs_production(p, begin)
    [] r[1] = "for_statement" -> for_statement(p, begin)
    [] r[1] = "parser_iteration_statement" -> parser_iteration_statement(p, begin)
    [] r[1] = "if_statement" -> if_statement(p, begin)
    [] r[1] = "switch_statement" -> switch_statement(p, begin)
    [] r[1] = "parser_selection_statement" -> parser_selection_statement(p, begin)
    [] r[1] = "parser_expression_statement" -> parser_expression_statement(p, begin)
    [] r[1] = "decl_or_stmt" -> decl_or_stmt(p, begin)
    [] r[1] = "block_item_list_production" -> block_item_list_production(p, begin)
    [] r[1] = "parser_compound_statement" -> parser_compound_statement(p, begin)
    [] r[1] = "parser_labeled_statement" -> parser_labeled_statement(p, begin)
    [] r[1] = "parser_statement" -> parser_statement(p, begin)
    [] r[1] = "parser_direct_abstract_declarator" -> parser_direct_abstract_declarator(p, begin)
    [] r[1] = "parser_specifier_qualifier_list" -> parser_specifier_qualifier_list(p, begin)
    [] r[1] = "ident_or_decl_production" -> ident_or_decl_production(p, begin)
    [] r[1] = "parser_direct_declarator" -> parser_direct_declarator(p, begin)
    [] r[1] = "parser_is_declarator" -> parser_is_declarator(p, begin)
    [] r[1] = "parser_init_declarator_list" -> parser_init_declarator_list(p, begin)
    [] r[1] = "parser_declaration_specifiers" -> parser_declaration_specifiers(p, begin)
    [] r[1] = "parser_enumeration_constant" -> parser_enumeration_constant(p, begin)
    [] r[1] = "designator_production" -> designator_production(p, begin)
    [] r[1] = "designation_production" -> designation_production(p, begin)
    [] r[1] = "postfix_production" -> postfix_production(p, begin)
    [] r[1] = "declaration_list" -> declaration_list(p, begin)
    [] r[1] = "parser_function_definition" -> parser_function_definition(p, begin)


----------------------------------------------------------------------------
(* SyntaxTree::parse and the loop of parser_compilation_unit, step by step *)

\* parse calls parser_compilation_unit, which enters its loop, or steps over
\* a leading Eof, or gives up on an empty range.
EnterCompilationUnit ==
  /\ pc = "parse"
  /\ IF begin_of_tokens # end
       THEN /\ compilation_unit' = ParserSuccess(SyntaxTree("CompilationUnit", NoToken))
            /\ IF TokenType(begin_of_tokens) # "Eof"
                 THEN it' = begin_of_tokens /\ pc' = "unit_loop"
                 ELSE it' = begin_of_tokens + 1 /\ pc' = "unit_return"
       ELSE /\ compilation_unit' = make_error("GiveUp", begin_of_tokens, "compilation unit")
            /\ it' = end
            /\ pc' = "unit_return"
  /\ UNCHANGED <<cache, merge, tokens, past_end, mark, parser, ast, fail_i, returned, tried,
                 rule, result, state>>

UnitEofStays ==
  /\ pc = "unit_loop" /\ it # end /\ TokenType(it) = "Eof"
  /\ pc' = "unit_return"
  /\ UNCHANGED <<cache, merge, tokens, past_end, mark, it, compilation_unit, parser, ast, fail_i,
                 returned, tried, rule, result, state>>

\* Loop iteration on Eof: step over it and break.
UnitEof ==
  /\ pc = "unit_loop" /\ it # end /\ TokenType(it) = "Eof"
  /\ it' = it + 1
  /\ pc' = "unit_return"
  /\ UNCHANGED <<cache, merge, tokens, past_end, mark, compilation_unit, parser, ast, fail_i,
                 returned, tried, rule, result, state>>

UnitSemicolonStays ==
  /\ pc = "unit_loop" /\ it # end /\ TokenType(it) = "Semicolon"
  /\ pc' = "diverged"
  /\ UNCHANGED <<cache, merge, tokens, past_end, mark, it, compilation_unit, parser, ast, fail_i,
                 returned, tried, rule, result, state>>

\* Loop iteration on a stray semicolon.
UnitSemicolon ==
  /\ pc = "unit_loop" /\ it # end /\ TokenType(it) = "Semicolon"
  /\ it' = it + 1
  /\ UNCHANGED <<cache, merge, tokens, past_end, mark, pc, compilation_unit, parser, ast, fail_i,
                 returned, tried, rule, result, state>>

\* Loop iteration on anything else: one external declaration.  An iteration
\* that leaves the iterator where it was would repeat forever: pc "diverged".
UnitExternalDeclaration ==
  /\ pc = "unit_loop" /\ it # end /\ TokenType(it) \notin {"Eof", "Semicolon"}
  /\ result' = Run(<<"parser_one_of", "external declaration",
                      << <<"parser_function_definition">>, <<"parser_declaration">> >> >>,
                    parser, it)
  /\ compilation_unit' = add_state(compilation_unit, giveup_to_expected(result'.state))
  /\ it' = result'.next_token
  /\ parser' = result'.parser
  /\ pc' = IF result'.parser.stalled \/ result'.next_token <= it
             THEN "diverged" ELSE "unit_loop"
  /\ tried' = tried \cup {it}
  /\ UNCHANGED <<cache, merge, tokens, past_end, mark, ast, fail_i, returned, rule, state>>

\* The loop condition fails.
UnitLoopExit ==
  /\ pc = "unit_loop" /\ it = end
  /\ pc' = "unit_return"
  /\ UNCHANGED <<cache, merge, tokens, past_end, mark, it, compilation_unit, parser, ast, fail_i,
                 returned, tried, rule, result, state>>

\* parser_compilation_unit returns; parse promotes a surviving GiveUp and
\* checks Ensures(it == tokens.end()), which terminates the program on failure.
UnitReturn ==
  /\ pc = "unit_return"
  /\ ast' = giveup_to_expected(compilation_unit)
  /\ pc' = IF it = end THEN "ensured" ELSE "terminated"
  /\ UNCHANGED <<cache, merge, tokens, past_end, mark, it, compilation_unit, parser, fail_i,
                 returned, tried, rule, result, state>>

ReturnTree ==
  /\ pc = "ensured" /\ is_success(ast)
  /\ returned' = ast.tree
  /\ pc' = "returned"
  /\ UNCHANGED <<cache, merge, tokens, past_end, mark, it, compilation_unit, parser, ast, fail_i,
                 tried, rule, result, state>>

\* The iteration without the test `context != tokens.end()`.
EmitFailureUnguarded ==
  /\ pc = "ensured" /\ is_failure(ast) /\ fail_i <= Len(ast.errors)
  /\ LET fail == ast.errors[fail_i]
     IN parser' = IF fail.status = "ErrorNote"
                    THEN parser_note(parser, fail.where, fail.error)
                    ELSE parser_error(parser, fail.where, fail.error)
  /\ fail_i' = fail_i + 1
  /\ UNCHANGED <<cache, merge, tokens, past_end, mark, pc, it, compilation_unit, ast, returned,
                 tried, rule, result, state>>

\* One iteration of the loop over the failure list.
EmitFailure ==
  /\ pc = "ensured" /\ is_failure(ast) /\ fail_i <= Len(ast.errors)
  /\ LET fail == ast.errors[fail_i]
     IN parser' = IF fail.where # end
                    THEN IF fail.status = "ErrorNote"
                           THEN parser_note(parser, fail.where, fail.error)
                           ELSE parser_error(parser, fail.where, fail.error)
                    ELSE parser
  /\ fail_i' = fail_i + 1
  /\ UNCHANGED <<cache, merge, tokens, past_end, mark, pc, it, compilation_unit, ast, returned,
                 tried, rule, result, state>>

ReturnNull ==
  /\ pc = "ensured" /\ is_failure(ast) /\ fail_i > Len(ast.errors)
  /\ returned' = nullptr
  /\ pc' = "returned"
  /\ UNCHANGED <<cache, merge, tokens, past_end, mark, it, compilation_unit, parser, ast, fail_i,
                 tried, rule, result, state>>

Next ==
  \/ EnterCompilationUnit
  \/ UnitEof
  \/ UnitSemicolon
  \/ UnitExternalDeclaration
  \/ UnitLoopExit
  \/ UnitReturn
  \/ ReturnTree
  \/ EmitFailure
  \/ ReturnNull


----------------------------------------------------------------------------
(* A single rule applied at the first token of a stream *)

ApplyRule ==
  /\ pc = "rule"
  /\ result' = Run(rule, parser, begin_of_tokens)
  /\ pc' = "applied"
  /\ UNCHANGED <<cache, merge, tokens, past_end, mark, it, compilation_unit, parser, ast, fail_i,
                 returned, tried, rule, state>>


----------------------------------------------------------------------------
(* The merge operations on a ParserState applied directly *)

\* No merge operation is under direct application.
NoMerge ==
  /\ state_before = ParserSuccess(nullptr)
  /\ arg_node = nullptr
  /\ arg_what = ""
  /\ merge_op = "none"

\* Nodes handed to add_node: a None accumulator with and without children, a
\* Nothing leaf, a leaf with text, and nodes with one or two children that
\* have text, an annotation, a preserved type, or none of these.
MergeNodes ==
  LET leaf == SyntaxTree("Identifier", 1)
      other == SyntaxTree("IntegerConstant", 2)
  IN { SyntaxTreeNone,
       add_child(add_child(SyntaxTreeNone, leaf), other),
       SyntaxTree("Nothing", NoToken),
       leaf,
       add_child(SyntaxTree("InitDeclarator", NoToken), leaf),
       add_child(add_child(SyntaxTree("InitDeclarator", NoToken), leaf), other),
       add_child(SyntaxTree("JumpStatement", 1), leaf),
       add_child(SyntaxTree("ParameterList", NoToken), leaf),
       [add_child(SyntaxTree("PrimaryExpression", NoToken), leaf)
          EXCEPT !.annotation = TRUE] }

\* Entries of a failure list: GiveUps with and without a hint, one of them
\* recorded at end, an Error and an ErrorNote.
MergeErrors ==
  { ParserError("GiveUp", 1, "statement"),
    ParserError("GiveUp", 2, ""),
    ParserError("GiveUp", end, "expression"),
    ParserError("Error", 1, "expected ')'"),
    ParserError("ErrorNote", 2, "to match this '('") }

\* Longest failure list under direct application.
MaxErrors == 2

\* States handed to the merge operations.
MergeStates ==
  { ParserSuccess(nullptr),
    ParserSuccess(SyntaxTree("Declaration", NoToken)),
    ParserSuccess(add_child(SyntaxTree("Declaration", NoToken),
                            SyntaxTree("TypeSpecifier", 1))) }
  \cup { ParserFailure(errors) :
           errors \in UNION { [1..n -> MergeErrors] : n \in 1..MaxErrors } }

\* The `what` arguments; giveup_to_expected(state) has none.
NoWhat == "<none>"
MergeWhats == {NoWhat, "condition for if-clause"}

\* giveup_to_expected in either overload.
GiveupToExpectedOf(st, what) ==
  IF what = NoWhat THEN giveup_to_expected(st) ELSE giveup_to_expected_what(st, what)

\* add_node(state, node).
AddNode ==
  /\ merge_op = "none"
  /\ \E node \in MergeNodes :
       /\ arg_node' = node
       /\ state' = add_node(state, node)
  /\ state_before' = state
  /\ merge_op' = "add_node"
  /\ UNCHANGED <<cache, arg_what, tokens, past_end, mark, pc, it, compilation_unit,
                 parser, ast, fail_i, returned, tried, rule, result>>

\* state = giveup_to_expected(std::move(state) [, what]).
GiveupToExpected ==
  /\ merge_op = "none"
  /\ \E what \in MergeWhats :
       /\ arg_what' = what
       /\ state' = GiveupToExpectedOf(state, what)
  /\ state_before' = state
  /\ merge_op' = "giveup_to_expected"
  /\ UNCHANGED <<cache, arg_node, tokens, past_end, mark, pc, it, compilation_unit,
                 parser, ast, fail_i, returned, tried, rule, result>>

\* The same call once more on its own result.
GiveupToExpectedAgain ==
  /\ merge_op = "giveup_to_expected"
  /\ state' = GiveupToExpectedOf(state, arg_what)
  /\ state_before' = state
  /\ merge_op' = "giveup_to_expected again"
  /\ UNCHANGED <<cache, arg_node, arg_what, tokens, past_end, mark, pc, it,
                 compilation_unit, parser, ast, fail_i, returned, tried, rule, result>>

----------------------------------------------------------------------------
(* SourceManager::SourceLineCache: src/src/source_manager.cpp *)

\* Positions in the source buffer are 1..Len(source); range.end() is
\* Len(source) + 1.
source_begin == 1
source_end == Len(source) + 1

\* std::find_if(first, range.end(), c == '\n') for first within the buffer.
RECURSIVE find_newline(_)
find_newline(first) ==
  IF first = source_end THEN source_end
  ELSE IF source[first] = "\n" THEN first
  ELSE find_newline(first + 1)

\* One iteration of the constructor's loop with the scan position inside the
\* buffer.
CacheLine ==
  /\ cache_pc = "scan" /\ line_end # source_end /\ line_end < source_end
  /\ LET found == find_newline(line_end)
     IN /\ offsets' = Append(offsets, <<line_begin, found>>)
        /\ line_begin' = found + 1
        /\ line_end' = found + 1
  /\ UNCHANGED <<merge, source, cache_pc, tokens, past_end, mark, pc, it, compilation_unit,
                 parser, ast, fail_i, returned, tried, rule, result, state>>

\* How far behind the buffer the scan is followed.
MaxOverrun == 2

\* One iteration with the scan position behind range.end(): std::find_if is
\* called with first > last, which is undefined.  It reads the memory behind
\* the buffer until it meets a '\n' there, at any position, or faults.
CacheOverrun ==
  /\ cache_pc = "scan" /\ line_end # source_end /\ line_end > source_end
  /\ \/ \E found \in line_end..(source_end + MaxOverrun) :
          /\ offsets' = Append(offsets, <<line_begin, found>>)
          /\ line_begin' = found + 1
          /\ line_end' = found + 1
          /\ cache_pc' = "scan"
     \/ /\ cache_pc' = "fault"
        /\ UNCHANGED <<line_begin, line_end, offsets>>
  /\ UNCHANGED <<merge, source, tokens, past_end, mark, pc, it, compilation_unit,
                 parser, ast, fail_i, returned, tried, rule, result, state>>

\* The loop condition fails: the constructor returns.
CacheReturn ==
  /\ cache_pc = "scan" /\ line_end = source_end
  /\ cache_pc' = "done"
  /\ UNCHANGED <<merge, source, line_begin, line_end, offsets, tokens, past_end, mark, pc, it,
                 compilation_unit, parser, ast, fail_i, returned, tried, rule, result,
                 state>>

\* The parser never reads the line cache; while it runs the cache is that of
\* an empty buffer, on which the constructor's loop is not entered.
CacheBuilt ==
  /\ source = <<>>
  /\ line_begin = source_begin
  /\ line_end = source_begin
  /\ offsets = <<>>
  /\ cache_pc = "done"

\* Longest source buffer.
MaxSource == 4

\* The buffers: every text of at most MaxSource characters over a letter and
\* the line feed.
Sources == UNION { [1..n -> {"a", "\n"}] : n \in 0..MaxSource }

\* The state when the constructor is entered, before the parser exists.
InitCache ==
  /\ source \in Sources
  /\ line_begin = source_begin
  /\ line_end = source_begin
  /\ offsets = <<>>
  /\ cache_pc = "scan"
  /\ tokens = <<"Eof">>
  /\ past_end = "Eof"
  /\ mark = 0
  /\ pc = "source_manager"
  /\ it = begin_of_tokens
  /\ compilation_unit = ParserSuccess(nullptr)
  /\ parser = ParserContext(ProgramContext(FALSE))
  /\ ast = ParserSuccess(nullptr)
  /\ fail_i = 1
  /\ returned = nullptr
  /\ tried = {}
  /\ rule = <<>>
  /\ result = <<>>
  /\ state = ParserSuccess(nullptr)
  /\ NoMerge

NextCache == CacheLine \/ CacheOverrun \/ CacheReturn

SpecCache == InitCache /\ [][NextCache]_vars

----------------------------------------------------------------------------
(* Specification of SyntaxTree::parse over lexer output *)

\* Longest prefix of a program text that is handed to the parser.
MaxPrefix == 9

\* What reading through tokens.end() can yield.
PastEndKinds == {"Eof", "Identifier"}

\* Program texts.  mark is the position of the first token of the external
\* declaration that follows one with an unterminated group (0: there is none).
Programs ==
  { [toks |-> <<"IntType", "Identifier", "Semicolon", "IntType", "Identifier", "Semicolon">>,
     mark |-> 0],
    [toks |-> <<"IntType", "Identifier", "Comma", "Identifier", "Assign",
                "IntegerConstant", "Semicolon", "Semicolon">>, mark |-> 0],
    [toks |-> <<"IntType", "Identifier", "LeftBracket", "IntegerConstant", "Semicolon",
                "IntType", "Identifier", "Semicolon", "IntType", "Identifier", "Semicolon">>,
     mark |-> 6],
    [toks |-> <<"IntType", "Identifier", "LeftParen", "IntType", "Identifier", "Semicolon",
                "IntType", "Identifier", "Semicolon">>, mark |-> 7],
    [toks |-> <<"IntType", "Identifier", "LeftParen", "RightParen", "LeftBrace", "Semicolon",
                "IntType", "Identifier", "Semicolon">>, mark |-> 7],
    [toks |-> <<"StaticAssert", "LeftParen", "IntegerConstant", "Comma", "StringConstant",
                "RightParen", "Semicolon">>, mark |-> 0],
    [toks |-> <<"IntType", "Identifier", "LeftParen", "RightParen", "LeftBrace",
                "RightBrace", "Semicolon", "IntType", "Identifier", "Semicolon">>, mark |-> 0],
    [toks |-> <<"Enum", "Identifier", "LeftBrace", "Identifier", "Comma", "Identifier",
                "RightBrace", "Semicolon">>, mark |-> 0],
    [toks |-> <<"Semicolon", "Identifier", "Semicolon", "RightParen", "IntType">>,
     mark |-> 0],
    [toks |-> <<"IntType", "Identifier", "Assign", "Identifier", "Dot", "Identifier",
                "Semicolon">>, mark |-> 0],
    [toks |-> <<"IntType", "Identifier", "Assign", "Identifier", "Times", "Identifier",
                "Semicolon">>, mark |-> 0] }

\* The text `int f ( int a , int b ) { return a + b ; }`.
FunctionText ==
  <<"IntType", "Identifier", "LeftParen", "IntType", "Identifier", "Comma", "IntType",
    "Identifier", "RightParen", "LeftBrace", "Return", "Identifier", "Plus", "Identifier",
    "Semicolon", "RightBrace">>

\* The text `int f ( ) int x ; { }`: a definition with a declaration list.
OldStyleText ==
  <<"IntType", "Identifier", "LeftParen", "RightParen", "IntType", "Identifier",
    "Semicolon", "LeftBrace", "RightBrace">>

\* Program texts that are only handed to the parser whole.
Units == { FunctionText, OldStyleText }

\* Every text of at most MaxShort tokens over ShortAlphabet is handed to the
\* parser as well.
MaxShort == 2

ShortAlphabet ==
  {"Identifier", "IntType", "LeftParen", "RightParen", "LeftBrace", "RightBrace",
   "LeftBracket", "Semicolon", "Comma", "Assign", "Times", "Struct", "While",
   "IntegerConstant"}

ShortTexts == UNION { [1..n -> ShortAlphabet] : n \in 0..MaxShort }

\* The lexer ends every stream with exactly one Eof.
Lexed(text) == text \o <<"Eof">>

Init ==
  /\ \/ \E prog \in Programs, n \in 0..MaxPrefix :
          /\ n <= Len(prog.toks)
          /\ tokens = Lexed(SubSeq(prog.toks, 1, n))
          /\ mark = IF prog.mark <= n THEN prog.mark ELSE 0
     \/ \E text \in Units \cup ShortTexts :
          /\ tokens = Lexed(text)
          /\ mark = 0
  /\ past_end \in PastEndKinds
  /\ \E opts_pedantic \in BOOLEAN : parser = ParserContext(ProgramContext(opts_pedantic))
  /\ pc = "parse"
  /\ it = begin_of_tokens
  /\ compilation_unit = ParserSuccess(nullptr)
  /\ ast = ParserSuccess(nullptr)
  /\ fail_i = 1
  /\ returned = nullptr
  /\ tried = {}
  /\ rule = <<"parser_compilation_unit">>
  /\ result = ParserResult(begin_of_tokens, ParserSuccess(nullptr),
                           ParserContext(ProgramContext(FALSE)))
  /\ state = ParserSuccess(nullptr)
  /\ CacheBuilt
  /\ NoMerge

Spec == Init /\ [][Next]_vars

\* parse is one sequential call: it keeps running until it returns.
Running == pc \in {"parse", "unit_loop", "unit_return", "ensured"}

\* A step of parse: Next is enabled exactly while parse is running, and each
\* of its steps moves pc, the iterator or the index of the emission loop.
Proceed ==
  /\ Running
  /\ \E q \in {"unit_loop", "unit_return", "ensured", "returned", "terminated", "diverged"},
        i \in begin_of_tokens..end, f \in {fail_i, fail_i + 1} :
       /\ <<q, i, f>> # <<pc, it, fail_i>>
       /\ pc' = q /\ it' = i /\ fail_i' = f

SpecLive == Spec /\ WF_<<pc, it, fail_i>>(Proceed)


-----------------------------------------------------------------------------
(* Specification of one grammar rule applied to lexer output *)

\* Longest prefix of a text that is handed to a rule.
MaxRulePrefix == 13

ParensExpressionRule == <<"parser_parens", <<"parser_expression">>, "LeftParen", "RightParen">>

\* Rules and the texts they are applied to:
\* `while ( x { }`, `while ( ; ) ;`, `if ( a ) if ( b ) x ; else y ;`,
\* `( x ) ;`, `( x ; )`, `( ; )`, `a = b = c`, `a + b + c`, `a , b , c`,
\* `x . x -> x`, `x ++ --`.
\* One operator of every left-associative level, and the text `a OP b OP c`.
ChainOperators ==
  {"Comma", "LogicalOr", "LogicalAnd", "BitwiseOr", "BitwiseXor", "BitwiseAnd", "EqualsTo",
   "LessThan", "BitwiseLeftShift", "Plus", "Times"}

ChainText(op) == <<"Identifier", op, "Identifier", op, "Identifier">>

\* unary-operator: one of & * + - ~ !   (the grammar of parser_unary_expression),
\* as token kinds; `!` is the logical-not token.
GrammarUnaryOperators ==
  {"BitwiseAnd", "Times", "Plus", "Minus", "BitwiseNot", "LogicalNot"}

RuleInputs ==
  { [rule |-> <<"parser_expression">>,
     toks |-> <<"Identifier", "Times", "Semicolon", "Identifier">>],
    [rule |-> <<"parser_expression">>,
     toks |-> <<"Identifier", "Plus", "Increment", "Semicolon">>],
    [rule |-> <<"parser_expression">>,
     toks |-> <<"Identifier", "Plus", "RightParen", "Plus", "Identifier">>],
    [rule |-> <<"parser_cast_expression">>,
     toks |-> <<"LeftParen", "IntType", "RightParen", "LeftBrace", "IntegerConstant", "RightBrace">>],
    [rule |-> <<"cast_production">>,
     toks |-> <<"LeftParen", "IntType", "RightParen", "Identifier", "Semicolon">>],
    [rule |-> <<"cast_production">>,
     toks |-> <<"LeftParen", "IntType", "RightParen", "LeftBrace", "IntegerConstant", "RightBrace">>],
    [rule |-> <<"cast_production">>,
     toks |-> <<"LeftParen", "IntType", "RightParen", "Identifier", "LeftBrace">>],
    [rule |-> <<"parser_type_qualifier_list">>,
     toks |-> <<"Const", "Volatile", "Identifier">>],
    [rule |-> <<"parser_declaration_specifiers">>,
     toks |-> <<"Identifier", "Const", "Semicolon">>],
    [rule |-> <<"parser_type_qualifier_list">>,
     toks |-> <<"Identifier", "Const", "Semicolon">>],
    [rule |-> <<"parser_type_specifier">>,
     toks |-> <<"Identifier", "Identifier", "Semicolon">>],
    [rule |-> <<"parser_typedef_name">>,
     toks |-> <<"Identifier", "Identifier", "Semicolon">>],
    [rule |-> <<"parser_iteration_statement">>,
     toks |-> <<"While", "LeftParen", "Identifier", "LeftBrace", "RightBrace">>],
    [rule |-> <<"parser_iteration_statement">>,
     toks |-> <<"While", "LeftParen", "Semicolon", "RightParen", "Semicolon">>],
    [rule |-> <<"parser_selection_statement">>,
     toks |-> <<"If", "LeftParen", "Identifier", "RightParen", "If", "LeftParen",
                "Identifier", "RightParen", "Identifier", "Semicolon", "Else",
                "Identifier", "Semicolon">>],
    [rule |-> ParensExpressionRule,
     toks |-> <<"LeftParen", "Identifier", "RightParen", "Semicolon">>],
    [rule |-> ParensExpressionRule,
     toks |-> <<"LeftParen", "Identifier", "Semicolon", "RightParen">>],
    [rule |-> ParensExpressionRule,
     toks |-> <<"LeftParen", "Semicolon", "RightParen">>],
    [rule |-> <<"parser_expression">>,
     toks |-> <<"Identifier", "Assign", "Identifier", "Assign", "Identifier">>],
    [rule |-> <<"parser_expression">>,
     toks |-> <<"Identifier", "Dot", "Identifier", "RightArrow", "Identifier">>],
    [rule |-> <<"parser_expression">>,
     toks |-> <<"Identifier", "Increment", "Decrement">>] }
  \cup { [rule |-> <<"parser_expression">>, toks |-> ChainText(op)] : op \in ChainOperators }
  \cup { [rule |-> <<"unary_cast_production">>, toks |-> <<t, "Identifier">>] :
           t \in GrammarUnaryOperators \cup {"NotEqualTo"} }

InitRule ==
  /\ \E input \in RuleInputs, n \in 0..MaxRulePrefix :
       /\ n <= Len(input.toks)
       /\ tokens = Lexed(SubSeq(input.toks, 1, n))
       /\ rule = input.rule
  /\ past_end \in PastEndKinds
  /\ \E opts_pedantic \in BOOLEAN : parser = ParserContext(ProgramContext(opts_pedantic))
  /\ mark = 0
  /\ pc = "rule"
  /\ it = begin_of_tokens
  /\ compilation_unit = ParserSuccess(nullptr)
  /\ ast = ParserSuccess(nullptr)
  /\ fail_i = 1
  /\ returned = nullptr
  /\ tried = {}
  /\ result = ParserResult(begin_of_tokens, ParserSuccess(nullptr),
                           ParserContext(ProgramContext(FALSE)))
  /\ state = ParserSuccess(nullptr)
  /\ CacheBuilt
  /\ NoMerge

SpecRule == InitRule /\ [][ApplyRule]_vars


----------------------------------------------------------------------------
(* Specification of the merge operations applied to bounded operands *)

InitState ==
  /\ tokens = Lexed(<<"Identifier", "Semicolon">>)
  /\ past_end \in PastEndKinds
  /\ state \in MergeStates
  /\ NoMerge
  /\ CacheBuilt
  /\ mark = 0
  /\ pc = "merge"
  /\ it = begin_of_tokens
  /\ compilation_unit = ParserSuccess(nullptr)
  /\ parser = ParserContext(ProgramContext(FALSE))
  /\ ast = ParserSuccess(nullptr)
  /\ fail_i = 1
  /\ returned = nullptr
  /\ tried = {}
  /\ rule = <<>>
  /\ result = <<>>

NextState == AddNode \/ GiveupToExpected \/ GiveupToExpectedAgain

SpecState == InitState /\ [][NextState]_vars


----------------------------------------------------------------------------
(* Properties *)

\* A tree written out: a node with its children, and a leaf.
Tree(type, token, children) ==
  [type |-> type, token |-> token, children |-> children, annotation |-> FALSE]
Leaf(type, token) == Tree(type, token, <<>>)

\* All nodes of a tree.
RECURSIVE NodesOf(_)
NodesOf(t) == {t} \cup UNION { NodesOf(t.children[i]) : i \in 1..Len(t.children) }

ChildTypes(node) == [i \in 1..Len(node.children) |-> node.children[i].type]

\* The text `int x ;` as the lexer delivers it.
IntX == Lexed(<<"IntType", "Identifier", "Semicolon">>)

FunctionTree ==
  Tree("CompilationUnit", NoToken, <<
    Tree("FunctionDefinition", NoToken, <<
      Tree("DeclarationSpecifiers", NoToken, << Leaf("TypeSpecifier", 1) >>),
      Tree("DirectDeclarator", NoToken, <<
        Leaf("Identifier", 2),
        Tree("ParameterList", NoToken, <<
          Tree("ParameterDeclaration", NoToken, <<
            Tree("DeclarationSpecifiers", NoToken, << Leaf("TypeSpecifier", 4) >>),
            Leaf("Identifier", 5) >>),
          Tree("ParameterDeclaration", NoToken, <<
            Tree("DeclarationSpecifiers", NoToken, << Leaf("TypeSpecifier", 7) >>),
            Leaf("Identifier", 8) >>) >>) >>),
      Tree("CompoundStatement", 10, <<
        Tree("JumpStatement", 11, <<
          Tree("AdditiveExpression", 13, << Leaf("Identifier", 12),
                                            Leaf("Identifier", 14) >>) >>) >>) >>) >>)

\* C12 (as amended): a direct declarator followed by a parenthesised parameter
\* list is wrapped in a DirectDeclarator node that holds the declared name and
\* the ParameterList; the declarator of a function definition never contains a
\* FunctionDeclarator node.  For `int f(int a, int b) { return a + b; }` the
\* FunctionDefinition holds DeclarationSpecifiers, DirectDeclarator[Identifier(f),
\* ParameterList of two ParameterDeclarations] and a CompoundStatement containing
\* JumpStatement(return) over AdditiveExpression(+).
C12_FunctionDeclaratorShape ==
  /\ (pc = "returned" /\ returned # nullptr) =>
       \A n \in NodesOf(returned) :
         n.type = "FunctionDefinition" =>
           \A m \in NodesOf(n.children[2]) : m.type # "FunctionDeclarator"
  /\ (pc = "returned" /\ tokens = Lexed(FunctionText)) => returned = FunctionTree

C12_Witness ==
  /\ pc = "returned"
  /\ tokens = Lexed(FunctionText)
  /\ returned = FunctionTree

\* C12 as claimed: the FunctionDefinition contains a FunctionDeclarator whose
\* ParameterList has two ParameterDeclaration children.
C12_AsClaimed ==
  (pc = "returned" /\ tokens = Lexed(FunctionText)) =>
    /\ returned # nullptr
    /\ \E n \in NodesOf(returned) :
         /\ n.type = "FunctionDeclarator"
         /\ \E l \in NodesOf(n) :
              /\ l.type = "ParameterList"
              /\ ChildTypes(l) = <<"ParameterDeclaration", "ParameterDeclaration">>


\* Texts whose last declaration lacks its terminating `;`: `int x`,
\* `int x ; int x`, `int x , x`, `int x , x = 1` and `int x ( ) { } ; int x`.
NoSemicolonTexts ==
  { <<"IntType", "Identifier">>,
    <<"IntType", "Identifier", "Semicolon", "IntType", "Identifier">>,
    <<"IntType", "Identifier", "Comma", "Identifier">>,
    <<"IntType", "Identifier", "Comma", "Identifier", "Assign", "IntegerConstant">>,
    <<"IntType", "Identifier", "LeftParen", "RightParen", "LeftBrace", "RightBrace",
      "Semicolon", "IntType", "Identifier">> }

\* The position of the Eof token of a lexed stream.
EofPosition == Len(tokens)

\* C13: for a translation unit whose last declaration lacks its `;` before Eof,
\* parse returns null and emits exactly one diagnostic, an error located at the
\* Eof token with the message `expected ';' before 'eof'`; the function
\* definition alternative that was tried first and gave up contributes nothing.
C13_MissingSemicolonAtEof ==
  (pc = "returned" /\ \E text \in NoSemicolonTexts : tokens = Lexed(text)) =>
    /\ returned = nullptr
    /\ parser.program.diagnostics =
         << Diagnostic("error", EofPosition,
                       "expected ';' before '" \o TokenTypeToString("Eof") \o "'") >>

C13_Witness ==
  /\ pc = "returned"
  /\ tokens = Lexed(<<"IntType", "Identifier">>)
  /\ returned = nullptr
  /\ Len(parser.program.diagnostics) = 1
  /\ parser.program.diagnostics[1].where = EofPosition


\* The two entries expect_end_token records for a missing closing token.
MissingClose(where, open, close) ==
  << ParserError("Error", where, "expected '" \o TokenTypeToString(close) \o "'"),
     ParserError("ErrorNote", open,
                 "to match this '" \o TokenTypeToString(TokenType(open)) \o "'") >>

\* The entries k, k+1 of a Failure list are the pair of a missing closing token.
HasMissingClose(errors, open, close) ==
  \E k \in 1..(Len(errors) - 1) :
    /\ errors[k].status = "Error"
    /\ errors[k].error = "expected '" \o TokenTypeToString(close) \o "'"
    /\ errors[k + 1] = MissingClose(errors[k].where, open, close)[2]

\* What parens(r, '(', ')') returns at begin_of_tokens, given what r returned.
ParensLaw(r) ==
  IF is_giveup(r.state) \/ r.next_token = end
    THEN result.state = r.state /\ result.next_token = r.next_token
    ELSE IF TokenType(r.next_token) = "RightParen"
      THEN result.state = r.state /\ result.next_token = r.next_token + 1
      ELSE /\ result.next_token = r.next_token
           /\ is_failure(result.state)
           /\ result.state.errors =
                r.state.errors \o MissingClose(r.next_token, begin_of_tokens, "RightParen")

\* C14 (as amended): parens(r, open, close) at an `open` token: when r did not
\* give up and stopped at a token before end that is not `close`, the result
\* is r's state followed by an Error at that token (`expected '<close>'`) and,
\* immediately after it, an ErrorNote at the `open` token (`to match this
\* '<open>'`); when r gave up or stopped at end, parens adds nothing.
\* `while ( x { }` gives exactly an Error at `{` and an ErrorNote at `(`.
C14_ParensMissingClose ==
  /\ (pc = "applied" /\ rule = ParensExpressionRule /\ TokenType(begin_of_tokens) = "LeftParen")
       => ParensLaw(Run(<<"parser_expression">>, parser, begin_of_tokens + 1))
  /\ (/\ pc = "applied"
      /\ rule = <<"parser_iteration_statement">>
      /\ tokens = Lexed(<<"While", "LeftParen", "Identifier", "LeftBrace", "RightBrace">>))
       => result.state = ParserFailure(MissingClose(4, 2, "RightParen"))

C14_Witness ==
  /\ pc = "applied"
  /\ rule = ParensExpressionRule
  /\ tokens = Lexed(<<"LeftParen", "Identifier", "Semicolon">>)
  /\ result.state = ParserFailure(MissingClose(3, begin_of_tokens, "RightParen"))

\* C14 as claimed: whenever the current token is `open` and no closing token
\* follows, the result contains the Error immediately followed by the ErrorNote.
C14_AsClaimed ==
  (/\ pc = "applied"
   /\ rule = ParensExpressionRule
   /\ TokenType(begin_of_tokens) = "LeftParen"
   /\ \A i \in 1..Len(tokens) : tokens[i] # "RightParen")
    => /\ is_failure(result.state)
       /\ HasMissingClose(result.state.errors, begin_of_tokens, "RightParen")


\* The diagnostic that parse emits for one entry of the failure list.
ReportOf(fail) ==
  Diagnostic(IF fail.status = "ErrorNote" THEN "note" ELSE "error", fail.where, fail.error)

AtToken(fail) == fail.where # end

IsReport(diagnostic) == diagnostic.level \in {"error", "note"}

\* The diagnostics parse emits for a failure list: its entries that lie at a
\* token, in list order.
Reported(errors) ==
  LET kept == SelectSeq(errors, AtToken)
  IN [k \in 1..Len(kept) |-> ReportOf(kept[k])]

\* C15 (as amended): the errors and notes are emitted in the order of the
\* failure list, which is the order in which the rules recorded them, not the
\* order of the tokens: after fail_i - 1 iterations of the emission loop the
\* emitted errors and notes are the reports of the first fail_i - 1 entries,
\* so a note is emitted after its error although it points to an earlier token.
C15_EmittedInListOrder ==
  (pc \in {"ensured", "returned"} /\ is_failure(ast)) =>
    SelectSeq(parser.program.diagnostics, IsReport)
      = Reported(SubSeq(ast.errors, 1, fail_i - 1))

\* `int x [ 1 ;`: the error at `;` is emitted before the note at `[`.
C15_Witness ==
  /\ pc = "returned"
  /\ is_failure(ast)
  /\ \E k \in 1..(Len(parser.program.diagnostics) - 1) :
       /\ parser.program.diagnostics[k].level = "error"
       /\ parser.program.diagnostics[k + 1].level = "note"
       /\ parser.program.diagnostics[k + 1].where < parser.program.diagnostics[k].where

\* C15 as claimed: no diagnostic lies before the one emitted before it.
C15_AsClaimed ==
  \A k \in 1..(Len(parser.program.diagnostics) - 1) :
    parser.program.diagnostics[k].where <= parser.program.diagnostics[k + 1].where


\* parser_compilation_unit is running or has just returned: the emission loop
\* of parse has not started.
RulesExecuting == pc \in {"parse", "unit_loop", "unit_return", "diverged", "terminated"}

\* C16 (as amended): errors and notes reach the program context only in the
\* emission loop of parse; while the rules execute, the only call on the
\* program context is the pedantic `empty statement` of one_many_of, which is
\* emitted immediately and not through the ParserState.
C16_OnlyPedanticBeforeEmission ==
  /\ RulesExecuting => SelectSeq(parser.program.diagnostics, IsReport) = <<>>
  /\ \A k \in 1..Len(parser.program.diagnostics) :
       ~IsReport(parser.program.diagnostics[k]) =>
         /\ parser.program.diagnostics[k].level = "pedantic"
         /\ parser.program.diagnostics[k].message = "empty statement"

\* `int x ( ) { ;`: the empty statement is reported while the loop of
\* parser_compilation_unit is still running.
C16_Witness ==
  /\ pc = "unit_loop"
  /\ parser.program.diagnostics = << Diagnostic("pedantic", 6, "empty statement") >>

\* C16 as claimed: nothing reaches the program context while rules execute.
C16_AsClaimed == RulesExecuting => parser.program.diagnostics = <<>>


\* The least element of a non-empty set of token positions.
Least(positions) == CHOOSE i \in positions : \A j \in positions : i <= j

\* The token positions of a subtree, and whether it holds any.
TokensOf(t) == { n.token : n \in NodesOf(t) } \ {NoToken}
HasTokens(t) == TokensOf(t) # {}

\* The leading token of a subtree that holds tokens.
LeadingToken(t) == Least(TokensOf(t))

\* The children i < j of a sequence that hold tokens lead in source order.
InSourceOrder(children) ==
  \A i, j \in 1..Len(children) :
    (i < j /\ HasTokens(children[i]) /\ HasTokens(children[j])) =>
      LeadingToken(children[i]) < LeadingToken(children[j])

PostfixTypes ==
  {"ArraySubscripting", "FunctionCall", "MemberAccess", "PointerMemberAccess",
   "PostfixIncrement", "PostfixDecrement"}

\* C17 (as amended): in every tree returned by parse the children of a node
\* are stored in the order in which the rule attached them.  That is the
\* source order of their leading tokens except in two documented shapes: a
\* postfix operator node stores its operand, which leads the expression, as
\* its last child (^(MemberAccess ident postfix-expr)), and a
\* FunctionDefinition stores its declaration list after the compound
\* statement (^(FunctionDefinition DeclarationSpecifiers Declaration
\* CompoundStatement DeclarationList?)).
C17_ChildrenOrder ==
  (pc = "returned" /\ returned # nullptr) =>
    \A n \in NodesOf(returned) :
      IF n.type \in PostfixTypes
        THEN /\ InSourceOrder(SubSeq(n.children, 1, Len(n.children) - 1))
             /\ LeadingToken(n.children[Len(n.children)]) < n.token
             /\ \A i \in 1..(Len(n.children) - 1) :
                  HasTokens(n.children[i]) => n.token < LeadingToken(n.children[i])
        ELSE IF n.type = "FunctionDefinition"
          THEN /\ InSourceOrder(SubSeq(n.children, 1, 3))
               /\ Len(n.children) <= 4
               /\ Len(n.children) = 4 =>
                    /\ LeadingToken(n.children[2]) < LeadingToken(n.children[4])
                    /\ LeadingToken(n.children[4]) < LeadingToken(n.children[3])
          ELSE InSourceOrder(n.children)

\* `int f ( ) int x ; { }` and `int x = x . x ;` have been parsed.
C17_Witness ==
  /\ pc = "returned"
  /\ returned # nullptr
  /\ \E n \in NodesOf(returned) :
       \/ n.type = "FunctionDefinition" /\ Len(n.children) = 4
       \/ n.type = "MemberAccess" /\ ChildTypes(n) = <<"Identifier", "Identifier">>

\* C17 as claimed: of any two children the one stored first starts earlier.
C17_AsClaimed ==
  (pc = "returned" /\ returned # nullptr) =>
    \A n \in NodesOf(returned) : InSourceOrder(n.children)


\* C18: no node of type None appears in a tree returned by parse: the None
\* accumulators of many_of, one_many_of, list_of and the rule-local
\* productions are absorbed by add_node before the tree is finished.
C18_NoNoneNode ==
  (pc = "returned" /\ returned # nullptr) =>
    \A n \in NodesOf(returned) : n.type # "None"

\* A tree with a declarator list and one with a parameter list, both built
\* through None accumulators of list_of, have been returned.
C18_Witness ==
  /\ pc = "returned"
  /\ returned # nullptr
  /\ \E n \in NodesOf(returned) :
       \/ n.type = "ParameterList" /\ Len(n.children) = 2
       \/ n.type = "Declaration" /\ Len(n.children) = 3


\* Every ErrorNote of a failure list directly follows an Error or another
\* ErrorNote; in particular the first entry is not an ErrorNote.
NotesFollowErrors(errors) ==
  \A k \in 1..Len(errors) :
    errors[k].status = "ErrorNote" =>
      k > 1 /\ errors[k - 1].status \in {"Error", "ErrorNote"}

\* C19: an ErrorNote never stands alone.  In the failure list of every
\* external declaration, in the list parser_compilation_unit accumulates, in
\* the list parse emits from, and in the emitted diagnostics, each note is
\* preceded by an error, directly or through other notes.
C19_NoteNeverAlone ==
  /\ NotesFollowErrors(result.state.errors)
  /\ NotesFollowErrors(compilation_unit.errors)
  /\ NotesFollowErrors(ast.errors)
  /\ \A k \in 1..Len(parser.program.diagnostics) :
       parser.program.diagnostics[k].level = "note" =>
         k > 1 /\ parser.program.diagnostics[k - 1].level \in {"error", "note"}

\* A list with a note has been accumulated and emitted.
C19_Witness ==
  /\ pc = "returned"
  /\ \E k \in 1..Len(ast.errors) : ast.errors[k].status = "ErrorNote"
  /\ \E k \in 1..Len(parser.program.diagnostics) :
       parser.program.diagnostics[k].level = "note"


\* C20: is_inside_specifiers is set only inside parser_type_specifier and is
\* restored when it returns: the flag is false whenever control is in parse or
\* in the loop of parser_compilation_unit, in the context every external
\* declaration hands back, and when parse has finished.
C20_FlagRestored ==
  /\ parser.is_inside_specifiers = FALSE
  /\ result.parser.is_inside_specifiers = FALSE

\* `enum x { x , x } ;` has been parsed: its type specifier is not a keyword,
\* so parser_type_specifier set the flag around parser_enum_specifier.
C20_Witness ==
  /\ pc = "returned"
  /\ tokens = Lexed(<<"Enum", "Identifier", "LeftBrace", "Identifier", "Comma",
                      "Identifier", "RightBrace", "Semicolon">>)
  /\ returned # nullptr
  /\ \E n \in NodesOf(returned) : n.type = "EnumSpecifier"
  /\ parser.is_inside_specifiers = FALSE


\* No loop iteration of parser_compilation_unit or of a combinator has left
\* its iterator where it was.
LoopsAdvance == pc # "diverged" /\ ~parser.stalled /\ ~result.parser.stalled

C2_EnsuresHolds ==
  /\ pc # "terminated"
  /\ pc \in {"unit_return", "ensured", "returned"} => it = end

\* parser_compilation_unit has returned after its loop consumed a declaration.
C2_Witness == pc = "ensured" /\ it = end /\ tried # {} /\ Len(tokens) > 3


\* The text `int x = x *`: the operator is the last token before the end marker.
OperatorAtEofText == <<"IntType", "Identifier", "Assign", "Identifier", "Times">>

\* C3: every next_token carried by a ParserResult, the one returned after the
\* one-token recovery hop of a left binary operator included, and the position of
\* the external-declaration loop, is at most end.
C3_NeverPastEnd ==
  /\ parser.max_next_token <= end
  /\ it <= end
  /\ result # <<>> => result.next_token <= end /\ result.parser.max_next_token <= end

\* The hop after `*` starts on the end marker and lands exactly on end.
C3_Witness ==
  /\ pc = "returned"
  /\ tokens = Lexed(OperatorAtEofText)
  /\ parser.max_next_token = end
  /\ \E i \in 1..Len(ast.errors) :
       ast.errors[i].error = "expected expression for operator '*'"


\* The errors and notes the program context holds.
Emitted == SelectSeq(parser.program.diagnostics, IsReport)

\* C4 (as amended): when the final state is a Failure, parse returns null and
\* has emitted, exactly once and in list order, every entry that lies at a
\* token, an Error as an error and an ErrorNote as a note, while the entries
\* whose position is tokens.end() are skipped; when the final state is a
\* Success, parse returns the tree and emits no error and no note.
C4_ParseOutcome ==
  pc = "returned" =>
    /\ is_failure(ast) => (returned = nullptr /\ Emitted = Reported(ast.errors))
    /\ is_success(ast) => (returned = ast.tree /\ returned # nullptr /\ Emitted = <<>>)

\* `_Static_assert (`: the entry `expected string literal list` lies at
\* tokens.end() and is not emitted, the entry before it is.
C4_Witness ==
  /\ pc = "returned"
  /\ is_failure(ast)
  /\ returned = nullptr
  /\ Emitted # <<>>
  /\ \E i \in 1..Len(ast.errors) : ast.errors[i].where = end

\* C4 as claimed: no entry of the failure list is skipped.
C4_AsClaimed ==
  (pc = "returned" /\ is_failure(ast)) =>
    Emitted = [k \in 1..Len(ast.errors) |-> ReportOf(ast.errors[k])]


\* The parser states the program holds: the accumulator of the compilation
\* unit, the state of the last rule that returned, and the final state.
HeldStates ==
  {compilation_unit, ast, state} \cup (IF result = <<>> THEN {} ELSE {result.state})

AllGiveUp(s) == \A i \in 1..Len(s.errors) : s.errors[i].status = "GiveUp"

\* C5: a Success never holds errors, a Failure holds at least one (add_error
\* turns a Success into a Failure of exactly that error and appends to a
\* Failure), and a state that is_giveup accepts is a Failure with at least one
\* entry, all of status GiveUp.
C5_StateAlgebra ==
  \A s \in HeldStates :
    /\ is_success(s) => s.errors = <<>>
    /\ is_failure(s) => s.errors # <<>>
    /\ is_giveup(s) => (is_failure(s) /\ s.errors # <<>> /\ AllGiveUp(s))

\* The declaration rules gave up on a token that starts no declaration, and the
\* compilation unit has turned the Success it held into a Failure.
C5_Witness ==
  /\ result # <<>>
  /\ is_giveup(result.state)
  /\ Len(result.state.errors) >= 1
  /\ is_failure(compilation_unit)
  /\ ~is_giveup(compilation_unit)


\* A node the elision law forbids: no text, no annotation, not of a preserved
\* type, and exactly one child.
Elidable(node) ==
  /\ ~has_text(node)
  /\ ~has_annotation(node)
  /\ node.type \notin PreservedNodeTypes
  /\ child_count(node) = 1

\* C6: no tree returned by parse contains a node without text, without
\* annotation, not of a preserved type, that has exactly one child.
C6_ElisionLaw ==
  (pc = "returned" /\ returned # nullptr) => \A node \in NodesOf(returned) : ~Elidable(node)


\* `int f ( int a , int b ) { return a + b ; }`: the single-child nodes that
\* remain carry text (the compound and the jump statement) or are of a
\* preserved type (the declaration specifiers), and the single-child statement
\* and expression wrappers between them are gone.
C6_Witness ==
  /\ pc = "returned"
  /\ returned # nullptr
  /\ tokens = Lexed(FunctionText)
  /\ \E node \in NodesOf(returned) :
       node.type = "JumpStatement" /\ child_count(node) = 1 /\ has_text(node)
  /\ \E node \in NodesOf(returned) :
       node.type = "DeclarationSpecifiers" /\ child_count(node) = 1
  /\ \A node \in NodesOf(returned) : ~Elidable(node)


\* The text `enum x { x , x } ;`: an enumerator list of two elements.
EnumText ==
  <<"Enum", "Identifier", "LeftBrace", "Identifier", "Comma", "Identifier",
    "RightBrace", "Semicolon">>

\* The text `int x , x = 1 ; ;`: an init-declarator list of two elements.
InitDeclaratorsText ==
  <<"IntType", "Identifier", "Comma", "Identifier", "Assign", "IntegerConstant",
    "Semicolon", "Semicolon">>

HasListNode(tree, type, k) ==
  \E node \in NodesOf(tree) : node.type = type /\ child_count(node) >= k

\* C7: a list production parsed with k elements yields a node of the list's
\* type with at least k children: the tree of `enum x { x , x } ;` holds an
\* EnumeratorList with two children and the tree of `int x , x = 1 ; ;` an
\* InitDeclaratorList with two children.
C7_ListNodes ==
  (pc = "returned" /\ returned # nullptr) =>
    /\ tokens = Lexed(EnumText) => HasListNode(returned, "EnumeratorList", 2)
    /\ tokens = Lexed(InitDeclaratorsText) => HasListNode(returned, "InitDeclaratorList", 2)


\* The node type of every left-associative level, by its operator.
LevelType ==
  [op \in ChainOperators |->
     CASE op = "Comma" -> "Expression"
       [] op = "LogicalOr" -> "LogicalOrExpression"
       [] op = "LogicalAnd" -> "LogicalAndExpression"
       [] op = "BitwiseOr" -> "InclusiveOrExpression"
       [] op = "BitwiseXor" -> "ExclusiveOrExpression"
       [] op = "BitwiseAnd" -> "AndExpression"
       [] op = "EqualsTo" -> "EqualityExpression"
       [] op = "LessThan" -> "RelationalExpression"
       [] op = "BitwiseLeftShift" -> "ShiftExpression"
       [] op = "Plus" -> "AdditiveExpression"
       [] op = "Times" -> "MultiplicativeExpression"]

\* ((a OP b) OP c) with the operators at tokens 2 and 4.
LeftNested(type) ==
  Tree(type, 4, << Tree(type, 2, << Leaf("Identifier", 1), Leaf("Identifier", 3) >>),
                   Leaf("Identifier", 5) >>)

\* (a = (b = c)) with the operators at tokens 2 and 4.
RightNested(type) ==
  Tree(type, 2, << Leaf("Identifier", 1),
                   Tree(type, 4, << Leaf("Identifier", 3), Leaf("Identifier", 5) >>) >>)

AssignText == <<"Identifier", "Assign", "Identifier", "Assign", "Identifier">>

\* C8: for every left-associative level `a OP b OP c` parses to the node of the
\* second operator with children [node of (a OP b), c], and `a = b = c` parses
\* to the node of the first `=` with children [a, node of (b = c)].
C8_Associativity ==
  (pc = "applied" /\ rule = <<"parser_expression">>) =>
    /\ \A op \in ChainOperators :
         tokens = Lexed(ChainText(op)) =>
           /\ result.state = ParserSuccess(LeftNested(LevelType[op]))
           /\ TokenType(result.next_token) = "Eof"
    /\ tokens = Lexed(AssignText) =>
         /\ result.state = ParserSuccess(RightNested("AssignmentExpression"))
         /\ TokenType(result.next_token) = "Eof"

\* `a * b * c` has been parsed into ((a * b) * c).
C8_Witness ==
  /\ pc = "applied"
  /\ tokens = Lexed(ChainText("Times"))
  /\ result.state = ParserSuccess(LeftNested("MultiplicativeExpression"))


\* The text `if ( a ) if ( b ) x ; else y ;`.
DanglingElseText ==
  <<"If", "LeftParen", "Identifier", "RightParen", "If", "LeftParen", "Identifier",
    "RightParen", "Identifier", "Semicolon", "Else", "Identifier", "Semicolon">>

\* C9: in `if (A) if (B) X; else Y;` the else-branch belongs to the nearest if:
\* the outer SelectionStatement has exactly two children, the condition and the
\* inner statement, and the inner SelectionStatement has exactly three, the
\* third being Y.
C9_DanglingElse ==
  (pc = "applied" /\ tokens = Lexed(DanglingElseText)) =>
    /\ is_success(result.state)
    /\ LET outer == result.state.tree
       IN /\ outer.type = "SelectionStatement" /\ outer.token = 1
          /\ child_count(outer) = 2
          /\ outer.children[1] = Leaf("Identifier", 3)
          /\ LET inner == outer.children[2]
             IN /\ inner.type = "SelectionStatement" /\ inner.token = 5
                /\ child_count(inner) = 3
                /\ inner.children[1] = Leaf("Identifier", 7)
                /\ inner.children[2] = Leaf("Identifier", 9)
                /\ inner.children[3] = Leaf("Identifier", 12)

\* The whole text has been parsed and the else-branch y is in the tree.
C9_Witness ==
  /\ pc = "applied"
  /\ tokens = Lexed(DanglingElseText)
  /\ is_success(result.state)
  /\ TokenType(result.next_token) = "Eof"
  /\ Leaf("Identifier", 12) \in NodesOf(result.state.tree)


\* C10: an unterminated group does not keep the following top-level
\* declarations from being tried: when parse returns on a text whose first
\* external declaration lacks a closing bracket, paren or brace, the loop of
\* parser_compilation_unit has invoked parser_one_of at the position where the
\* next external declaration starts.
C10_LaterDeclarationsTried ==
  (pc = "returned" /\ mark # 0) => mark \in tried


\* The text `x x ;`.
TypedefUseText == <<"Identifier", "Identifier", "Semicolon">>

\* The trees a rule has handed back.
ResultTrees ==
  IF result # <<>> /\ is_success(result.state) /\ result.state.tree # nullptr
    THEN {result.state.tree} ELSE {}

\* C21: parser_typedef_name gives up on every input, an Identifier included:
\* it returns end with the single GiveUp `typedef name` at begin; an identifier
\* is therefore never accepted as a type specifier, and no tree holds a
\* TypedefName node.
C21_TypedefNameGivesUp ==
  pc = "applied" =>
    /\ rule = <<"parser_typedef_name">> =>
         /\ result.state = make_error("GiveUp", begin_of_tokens, "typedef name")
         /\ result.next_token = end
    /\ (rule = <<"parser_type_specifier">> /\ TokenType(begin_of_tokens) = "Identifier") =>
         is_giveup(result.state)
    /\ \A tree \in ResultTrees : \A node \in NodesOf(tree) : node.type # "TypedefName"

\* parser_typedef_name has been applied to `x x ;` and gave up on the identifier.
C21_Witness ==
  /\ pc = "applied"
  /\ rule = <<"parser_typedef_name">>
  /\ tokens = Lexed(TypedefUseText)
  /\ is_giveup(result.state)


\* The lines of a buffer: the ranges between line feeds, the trailing text
\* without a line feed being the last line.
RECURSIVE LinesFrom(_, _)
LinesFrom(text, first) ==
  IF first > Len(text) THEN <<>>
  ELSE LET stop == CHOOSE i \in first..(Len(text) + 1) :
                     /\ i = Len(text) + 1 \/ text[i] = "\n"
                     /\ \A j \in first..(i - 1) : text[j] # "\n"
       IN <<(<<first, stop>>)>> \o LinesFrom(text, stop + 1)

Unterminated == source # <<>> /\ source[Len(source)] # "\n"

\* C22: the constructor of the line cache never moves its scan position past
\* the end of the buffer, and when it has returned the cache holds the lines of
\* the buffer: n ranges for n lines that end in a line feed, and the trailing
\* text as the last range for a buffer whose last line has none.
C22_LineCache ==
  /\ line_end <= source_end
  /\ cache_pc # "fault"
  /\ cache_pc = "done" => offsets = LinesFrom(source, source_begin)

\* On the buffers whose lines all end in a line feed the same law holds in
\* every state.
TerminatedLinesCached ==
  ~Unterminated =>
    /\ line_end <= source_end
    /\ cache_pc # "fault"
    /\ cache_pc = "done" => offsets = LinesFrom(source, source_begin)


\* The last line has no line feed and the scan position is behind range.end().
C22_Witness ==
  /\ Unterminated
  /\ cache_pc = "scan"
  /\ line_end = source_end + 1
  /\ offsets = LinesFrom(source, source_begin)


\* C23 (as amended): add_node(state, n) on a Success whose tree is null makes
\* n the tree; on a Success with a tree, the tree takes the children of n and
\* n is discarded if n is of type None or should_elide(n) holds, and n becomes
\* the last child otherwise, a Nothing leaf included; on a Failure add_node
\* changes nothing.
C23_AddNode ==
  merge_op = "add_node" =>
    /\ is_failure(state_before) => state = state_before
    /\ (is_success(state_before) /\ state_before.tree = nullptr) =>
         state = ParserSuccess(arg_node)
    /\ (is_success(state_before) /\ state_before.tree # nullptr) =>
         /\ is_success(state)
         /\ state.tree.type = state_before.tree.type
         /\ state.tree.token = state_before.tree.token
         /\ state.tree.children =
              IF arg_node.type = "None" \/ should_elide(arg_node)
                THEN state_before.tree.children \o arg_node.children
                ELSE Append(state_before.tree.children, arg_node)

\* A Nothing leaf has been added to a tree and is its last child.
C23_Witness ==
  /\ merge_op = "add_node"
  /\ is_success(state_before) /\ state_before.tree # nullptr
  /\ arg_node.type = "Nothing"
  /\ state.tree.children = Append(state_before.tree.children, arg_node)

\* C23 as claimed: a node of type Nothing is absorbed like an elided node.
C23_AsClaimed ==
  (merge_op = "add_node" /\ is_success(state_before) /\ state_before.tree # nullptr) =>
    state.tree.children =
      IF arg_node.type = "Nothing" \/ should_elide(arg_node)
        THEN state_before.tree.children \o arg_node.children
        ELSE Append(state_before.tree.children, arg_node)


\* The node types C24 names as preserved.
ClaimedPreserved ==
  {"GenericAssocList", "ArgumentExpressionList", "InitDeclaratorList",
   "StructDeclarationList", "SpecifierQualifierList", "StructDeclaratorList",
   "EnumeratorList", "TypeQualifierList", "ParameterList", "IdentifierList",
   "InitializerList", "DesignatorList", "StringLiteralList", "DeclarationList",
   "BlockItemList", "Declaration", "DeclarationSpecifiers", "ParameterTypeList",
   "FunctionSpecifier", "AlignmentSpecifier", "TranslationUnit", "CompilationUnit",
   "FunctionDeclarator"}

SingleChild(type) == add_child(SyntaxTree(type, NoToken), SyntaxTree("Identifier", 1))

\* C24: should_elide rejects every node of a list type (StringLiteralList,
\* DeclarationList and BlockItemList included) and of the other preserved
\* types, so such a node stays in the tree with a single child and no text:
\* the tree of `int f ( ) int x ; { }` holds a DeclarationList with one child.
C24_ListKindsSurvive ==
  /\ \A type \in ClaimedPreserved : ~should_elide(SingleChild(type))
  /\ (pc = "returned" /\ tokens = Lexed(OldStyleText) /\ returned # nullptr) =>
       \E node \in NodesOf(returned) :
         node.type = "DeclarationList" /\ child_count(node) = 1

\* `int f ( ) int x ; { }` has been parsed: the declaration of x is a child of
\* the FunctionDefinition itself and the tree holds no DeclarationList.
C24_Witness ==
  /\ pc = "returned" /\ tokens = Lexed(OldStyleText) /\ returned # nullptr
  /\ \A node \in NodesOf(returned) : node.type # "DeclarationList"
  /\ \E node \in NodesOf(returned) :
       /\ node.type = "FunctionDefinition"
       /\ node.children[child_count(node)].type = "Declaration"

\* The types C24 names that should_elide does not preserve.
NotPreserved == { type \in ClaimedPreserved : should_elide(SingleChild(type)) }


\* What one entry of a failure list becomes under giveup_to_expected.
Rewritten(e, what) ==
  IF e.status # "GiveUp" THEN <<e>>
  ELSE IF what = NoWhat THEN <<ParserError("Error", e.where, "expected " \o e.error)>>
  ELSE <<ParserError("Error", e.where, "expected " \o what)>>
       \o (IF e.error = "" THEN <<>>
           ELSE <<ParserError("ErrorNote", e.where,
                    e.error \o " instead of this '"
                      \o TokenTypeToString(TokenType(e.where)) \o "'")>>)

RECURSIVE RewrittenAll(_, _)
RewrittenAll(errors, what) ==
  IF errors = <<>> THEN <<>>
  ELSE Rewritten(Head(errors), what) \o RewrittenAll(Tail(errors), what)

\* C25: giveup_to_expected returns a Success unchanged; of a Failure it makes
\* a Failure without GiveUp entry in which every GiveUp has become an Error at
\* the same position saying `expected <what>` (`expected <its message>` without
\* a what) and, with a what and a non-empty hint, is followed at once by the
\* ErrorNote `<hint> instead of this '<kind>'`, the other entries keeping
\* their place; applied once more it changes nothing.
C25_GiveupToExpected ==
  /\ merge_op = "giveup_to_expected" =>
       /\ is_success(state_before) => state = state_before
       /\ is_failure(state_before) =>
            /\ is_failure(state)
            /\ state.errors = RewrittenAll(state_before.errors, arg_what)
            /\ \A i \in 1..Len(state.errors) : state.errors[i].status # "GiveUp"
  /\ merge_op = "giveup_to_expected again" => state = state_before

\* A GiveUp with a hint has been rewritten with a what: the Error, its note,
\* and the entry that followed it, and a second application has changed nothing.
C25_Witness ==
  /\ merge_op = "giveup_to_expected again"
  /\ arg_what = "condition for if-clause"
  /\ state = state_before
  /\ state.errors =
       << ParserError("Error", 1, "expected condition for if-clause"),
          ParserError("ErrorNote", 1, "statement instead of this '"
                                        \o TokenTypeToString("Identifier") \o "'"),
          ParserError("ErrorNote", 2, "to match this '('") >>


\* The text `x const ;`: its first token starts neither a declaration
\* specifier nor a type qualifier.
NoMatchText == <<"Identifier", "Const", "Semicolon">>

\* C26 (as amended): parser_one_many_of requires one match.  When the first
\* application of its rule gives up, the unpredicated variant returns end and
\* the single GiveUp at begin whose message is its `expected` argument; the
\* predicated variant merges the rule's result without looking at it and so
\* returns the rule's own GiveUp, with the rule's message, and the rule's next
\* position.
C26_OneManyOf ==
  (pc = "applied" /\ TokenType(begin_of_tokens) = "Identifier") =>
    /\ rule = <<"parser_declaration_specifiers">> =>
         /\ result.state = make_error("GiveUp", begin_of_tokens, "declaration specifiers")
         /\ result.next_token = end
    /\ rule = <<"parser_type_qualifier_list">> =>
         /\ result.state = make_error("GiveUp", begin_of_tokens, "type qualifier")
         /\ result.next_token = end

\* parser_type_qualifier_list has been applied to `x const ;` and gave up with
\* the message of parser_type_qualifier.
C26_Witness ==
  /\ pc = "applied"
  /\ rule = <<"parser_type_qualifier_list">>
  /\ tokens = Lexed(NoMatchText)
  /\ is_giveup(result.state)
  /\ result.state.errors[1].error = "type qualifier"

\* C26 as claimed: both variants give up with their `expected` argument.
C26_AsClaimed ==
  (pc = "applied" /\ TokenType(begin_of_tokens) = "Identifier") =>
    /\ rule = <<"parser_declaration_specifiers">> =>
         result.state = make_error("GiveUp", begin_of_tokens, "declaration specifiers")
    /\ rule = <<"parser_type_qualifier_list">> =>
         result.state = make_error("GiveUp", begin_of_tokens, "type qualifier list")


\* The tokens `( int )`.
CastPrefix == <<"LeftParen", "IntType", "RightParen">>

\* The rule has been applied to a text that starts with `( int )` and goes on.
AfterCastPrefix ==
  /\ pc = "applied"
  /\ Len(tokens) >= 5
  /\ SubSeq(tokens, 1, 3) = CastPrefix

\* C27: after `( type_name )` the cast production commits exactly when the
\* token that follows the `)` is not `{`; when it is `{` the production gives
\* up and the unary/postfix path parses a compound literal.
C27_CastCommits ==
  AfterCastPrefix =>
    /\ rule = <<"cast_production">> =>
         (~is_giveup(result.state) <=> tokens[4] # "LeftBrace")
    /\ (rule = <<"parser_cast_expression">> /\ tokens[4] = "LeftBrace"
          /\ is_success(result.state)) =>
         result.state.tree.type = "CompoundLiteral"

\* `( int ) x {`: the token after `)` is an identifier, and the cast
\* production has given up because a `{` follows the operand.
C27_Witness ==
  /\ AfterCastPrefix
  /\ rule = <<"cast_production">>
  /\ tokens = Lexed(CastPrefix \o <<"Identifier", "LeftBrace">>)
  /\ result.state = make_error("GiveUp", begin_of_tokens, "cast expression")

\* What the code does instead: the production commits exactly when the
\* position its operand returned is a token other than `{`.
CastCommitsOnOperandEnd ==
  (AfterCastPrefix /\ rule = <<"cast_production">>) =>
    LET cast_it == Run(<<"parser_cast_expression">>, parser, 4).next_token
    IN ~is_giveup(result.state) <=> (cast_it # end /\ TokenType(cast_it) # "LeftBrace")


\* The operand rule a left-associative level applies to the right of its
\* operator: the level below it.
RhsRuleOf(op) ==
  IF op = "Comma" THEN <<"parser_assignment_expression">>
  ELSE LET n == CHOOSE i \in 1..Len(BinaryLevels) : op \in BinaryLevels[i].ops
       IN <<BinaryLevels[n].lhs>>

\* An expression `a OP ...` has been parsed: the operator of a
\* left-associative level at token 2, matched after the operand `a`.
AfterFirstOperator ==
  /\ pc = "applied"
  /\ rule = <<"parser_expression">>
  /\ Len(tokens) >= 3
  /\ tokens[1] = "Identifier"
  /\ tokens[2] \in ChainOperators

\* The right operand of that operator, parsed at the position after it.
FirstRhs == Run(RhsRuleOf(tokens[2]), parser, 3)

ExpectedOperand(op) ==
  "expected expression for operator '" \o TokenTypeToString(op) \o "'"

HasOperandError(st) ==
  \E i \in 1..Len(st.errors) :
    st.errors[i] = ParserError("Error", 3, ExpectedOperand(tokens[2]))

\* Every token kind that is the operator of some expression level.
ExpressionOperators ==
  {"Comma"} \cup UNION { BinaryLevels[i].ops : i \in 1..Len(BinaryLevels) }

\* C28 (as amended): when the operator matched and its right operand did not
\* succeed, the result is a Failure and the parse resumes one token after the
\* position that follows the operator: it ends there unless another operator
\* stands there, and never before it nor past end.  The Failure holds the
\* Error "expected expression for operator '<op>'" when the right operand
\* gave up; when it failed with errors of its own, it holds those errors
\* unchanged and no such Error.
C28_LeftBinaryRecovery ==
  (AfterFirstOperator /\ ~is_success(FirstRhs.state)) =>
    /\ is_failure(result.state)
    /\ is_giveup(FirstRhs.state) <=> HasOperandError(result.state)
    /\ ~is_giveup(FirstRhs.state) =>
         \A i \in 1..Len(FirstRhs.state.errors) :
           \E j \in 1..Len(result.state.errors) :
             result.state.errors[j] = FirstRhs.state.errors[i]
    /\ result.next_token >= 4
    /\ result.next_token <= end
    /\ result.next_token > 4 => TokenType(4) \in ExpressionOperators

\* `a * ; b`: the operand of `*` gave up at `;`, the Error names the operator,
\* and the parse resumed behind the `;`, at the identifier.
C28_Witness ==
  /\ AfterFirstOperator
  /\ tokens = Lexed(<<"Identifier", "Times", "Semicolon", "Identifier">>)
  /\ is_giveup(FirstRhs.state)
  /\ HasOperandError(result.state)
  /\ result.next_token = 4

\* C28 as claimed: every right operand that did not succeed leaves the Error
\* "expected expression for operator '<op>'" in the result.
C28_AsClaimed ==
  (AfterFirstOperator /\ ~is_success(FirstRhs.state)) =>
    /\ is_failure(result.state)
    /\ HasOperandError(result.state)
    /\ result.next_token >= 4
    /\ result.next_token <= end


\* The unary-operator production has been applied to `t x`.
AfterUnaryOperator ==
  /\ pc = "applied"
  /\ rule = <<"unary_cast_production">>
  /\ Len(tokens) = 3
  /\ tokens[2] = "Identifier"

\* C29: the unary-operator production accepts exactly the six operator
\* tokens & * + - ~ ! as first token: `! x` is a unary expression, and
\* `!= x`, whose first token is the not-equal operator of the equality
\* level, is not.
C29_UnaryOperators ==
  AfterUnaryOperator =>
    (~is_giveup(result.state) <=> tokens[1] \in GrammarUnaryOperators)

\* `!= x` has been accepted as a unary expression on the operand x.
C29_Witness ==
  /\ AfterUnaryOperator
  /\ tokens[1] = "NotEqualTo"
  /\ "NotEqualTo" \in BinaryLevels[5].ops
  /\ result.state = ParserSuccess(Tree("UnaryExpression", 1, << Leaf("Identifier", 2) >>))
  /\ result.next_token = 3

\* What the code does instead: it accepts the kinds of its switch, which
\* holds the not-equal token where the grammar has the logical-not token.
UnaryOperatorsOfSwitch ==
  AfterUnaryOperator =>
    (~is_giveup(result.state) <=>
       tokens[1] \in (GrammarUnaryOperators \ {"LogicalNot"}) \cup {"NotEqualTo"})


\* The note giveup_to_expected(state, what) writes for a GiveUp with the
\* message `hint` recorded at `where`: it reads the token at `where`.
InsteadOfThis(hint, where) ==
  ParserError("ErrorNote", where,
              hint \o " instead of this '" \o TokenTypeToString(TokenType(where)) \o "'")

\* The messages of the GiveUp entries of the statement and expression rules.
GiveUpHints ==
  {"statement", "expression", "assignment or conditional expression",
   "cast or unary expression"}

\* C30: giveup_to_expected(state, what) never reads the token at end: no
\* note of a rewritten GiveUp in the result of a rule lies at end, also when
\* the parenthesised condition of an if / while gave up and parser_statement
\* was applied at the position it handed back.
C30_NoReadAtEnd ==
  pc = "applied" =>
    \A i \in 1..Len(result.state.errors) :
      \A hint \in GiveUpHints :
        result.state.errors[i] # InsteadOfThis(hint, end)

\* `while ( ; ) ;`: the condition gave up and returned end, parser_statement
\* gave up at end, and the note of its GiveUp names the token kind found
\* behind the last token of the stream.
C30_Witness ==
  /\ pc = "applied"
  /\ rule = <<"parser_iteration_statement">>
  /\ tokens = Lexed(<<"While", "LeftParen", "Semicolon", "RightParen", "Semicolon">>)
  /\ past_end = "Identifier"
  /\ \E i \in 1..Len(result.state.errors) :
       /\ result.state.errors[i] =
            ParserError("ErrorNote", end, "statement instead of this '"
                                            \o TokenTypeToString("Identifier") \o "'")
       /\ i > 1
       /\ result.state.errors[i - 1] =
            ParserError("Error", end, "expected statement for while-clause")

====
